---- MODULE Spec2Model ----
(***************************************************************************)
(* A model of the data preparation stage of holoAnalytics: the video type  *)
(* classifier (datapreparation/classification/video_types.py), the title   *)
(* keyword extractor (datapreparation/extraction/video_keywords.py), the   *)
(* content type classifier (classification/content_types.py) and the video *)
(* type summary (datapreparation/summary.py); and of the data collection   *)
(* stage: the session directories and the exports (utils/exporting.py),    *)
(* the requests to the YouTube Data API (datacollection/youtube), the      *)
(* choice of a session (utils/setup.py) and the summary by unit.           *)
(*                                                                         *)
(* The file system is the set of the directories and the set of the files  *)
(* below YT_DAPI_SESSIONS_PATH, a path being the sequence of its names.    *)
(* The variable error holds the exception the last operation raised.       *)
(*                                                                         *)
(* A pandas DataFrame is a record [columns, rows]: columns is the sequence *)
(* of column names, rows the sequence of rows, each row a function from    *)
(* the column names to values. Timedeltas and datetimes are whole seconds. *)
(***************************************************************************)
EXTENDS Integers, Sequences, FiniteSets, TLC

VARIABLES
    video_attributes,   \* the video attributes DataFrame being classified
    applied,            \* the classifier functions applied so far, in order
    responses,          \* status code of the response to each HEAD request of the last is_short, per video id
    summary,            \* result of summarize_video_types, or NoSummary
    error,              \* exception raised by the last operation, or "none"
    keyword_banks,      \* the imported keyword banks, one per language
    video_title_keywords,   \* the DataFrame of _extract_member_keywords, or NoTable
    content_types,      \* the DataFrame of _classify_member_videos, or NoTable
    content_summary,    \* result of summarize_content_types, or NoSummary
    input_ids,          \* the video ids of the video attributes as imported
    directories,        \* the directories below YT_DAPI_SESSIONS_PATH, each the sequence of its names
    files,              \* the files below YT_DAPI_SESSIONS_PATH
    SESSION_PATH,       \* definitions.SESSION_PATH, the session of utils/exporting.py, or None
    session_SESSION_PATH,   \* settings.session.SESSION_PATH, the session of the scripts, or None
    clock,              \* the position of the current instant in Instants
    created,            \* the paths create_session returned, in order
    youtube,            \* what the YouTube Data API holds: channels, playlists and videos
    requests,           \* the requests the last operation made to the API, with their outcome
    api_responses,      \* the responses the last call of request_data returned
    member_channel_data,    \* the dictionary the last get_channel_data returned, or None
    member_video_data,  \* the dictionary the last get_video_data returned, or None
    video_stats,        \* the table the last get_video_stats built, or NoTable
    member_data,        \* the starting data of the members
    operation,          \* the operation of the data collection called last
    session_request,    \* the call of request_session: its position, the sessions it
                        \* listed, the input entered last and the name it returned
    split_data,         \* the sequence given to split_n_sized_batches
    split_size,         \* the batch size given to split_n_sized_batches
    batched_data,       \* the list split_n_sized_batches returned last
    csv_files,          \* what each file holds, as to_csv wrote it
    imported,           \* what the last import was asked for and what it returned
    extractions         \* the number of calls of extract_title_keywords

prepareVars == <<video_attributes, applied, responses, summary, error,
                 keyword_banks, video_title_keywords, content_types,
                 content_summary, input_ids, session_request>>

sessionVars == <<directories, files, SESSION_PATH, session_SESSION_PATH, clock, created>>

collectVars == <<youtube, requests, api_responses, member_channel_data, member_video_data,
                 video_stats, member_data, operation>>

splitVars == <<split_data, split_size, batched_data>>

utilVars == <<splitVars, csv_files, imported, extractions>>

vars == <<prepareVars, sessionVars, collectVars, utilVars>>

typesVars == <<video_attributes, applied, responses, summary>>

keywordsVars == <<keyword_banks, video_title_keywords, content_types, content_summary>>

-----------------------------------------------------------------------------
(* Bounds of the model *)

\* number of calls of create_session
MaxSessions == 3

\* number of files exported
MaxFiles == 2

\* number of directories when data is collected
MaxDirectories == 5

\* number of pages of a playlist
MaxPages == 2

\* max_results: number of ids of one request
MaxResults == 2

\* half-width of the window of durations and differences tried around each threshold
\* the most calls of extract_title_keywords
MaxExtractions == 2

\* the longest sequence given to split_n_sized_batches
MaxData == 12

\* the largest batch size given to split_n_sized_batches
MaxBatch == 5

Window == 1

\* number of classifier calls (is_live_stream, is_short) made on one table
MaxApplications == 2

-----------------------------------------------------------------------------
(* Constants of video_types.py, in seconds *)

PREMIERE_COUNTDOWN == 120

BOUNDS == 15

PREMIERE_CUTOFF == 3601

LIVE_STREAM_CUTOFF == 300

\* max_length='00:01:00' passed to check_video_duration
SHORT_MAX_LENGTH == 60

\* min_length='00:00:00', the default of check_video_duration
MIN_LENGTH == 0

HTTP_OK == 200

HTTP_SEE_OTHER == 303

VIDEO_TYPES == <<"Normal", "Short", "Live Stream", "Premiere">>

\* pd.NaT / NaN in a column of seconds: a value no time of the model takes
NaT == -1000000

\* NaN / None in a column of strings: video types are sequences of labels,
\* the string being the labels joined by ' / '; <<"">> is the empty string
NaN == <<>>

EmptyString == <<"">>

IsNa(v) == v = NaN

IsNaT(v) == v = NaT

-----------------------------------------------------------------------------
(* DataFrames *)

Range(s) == {s[i] : i \in 1..Len(s)}

DataFrame(columns, rows) == [columns |-> columns, rows |-> rows]

\* Body(value), the value being computed once
Given(value, Body(_)) == CHOOSE result \in {Body(v) : v \in {value}} : TRUE

HasColumn(df, c) == c \in Range(df.columns)

RECURSIVE MapRows(_, _, _)
MapRows(rows, F(_), i) ==
    IF i > Len(rows) THEN <<>> ELSE <<F(rows[i])>> \o MapRows(rows, F, i + 1)

\* df[c] = F(row): overwrites the column, or appends it as last column
SetColumn(df, c, F(_)) ==
    LET cols == IF HasColumn(df, c) THEN df.columns ELSE Append(df.columns, c)
        NewRow(r) == [k \in Range(cols) |-> IF k = c THEN F(r) ELSE r[k]]
    IN  DataFrame(cols, MapRows(df.rows, NewRow, 1))

\* df[[c1, c2, ...]]
Project(df, cols) ==
    LET NewRow(r) == [k \in Range(cols) |-> r[k]]
    IN  DataFrame(cols, MapRows(df.rows, NewRow, 1))

\* df[mask]
FilterRows(df, Keep(_)) == DataFrame(df.columns, SelectSeq(df.rows, Keep))

\* the null of a column: NaN for the columns of strings and of sets, NaT for
\* the columns of seconds
NullOf(c) ==
    IF c \in {"video_type", "video_type_x", "video_type_y"} THEN NaN
    ELSE IF c = "video_id" THEN "nan"
    ELSE IF c = "title" THEN <<"nan">>
    ELSE IF c \in {"title_keywords", "content_types"} THEN {"nan"}
    ELSE NaT

NoTable == DataFrame(<<>>, <<>>)

\* the index of a DataFrame read by pd.read_csv or returned by merge, and of
\* a Series made from a list: 0, 1, ..., n-1
RangeIndex(n) == [i \in 1..n |-> i - 1]

Series(name, index, values) == [name |-> name, index |-> index, values |-> values]

\* df[c]
ColumnOf(df, c) ==
    Series(c, RangeIndex(Len(df.rows)), [i \in 1..Len(df.rows) |-> df.rows[i][c]])

RECURSIVE SortedSeq(_)
SortedSeq(S) ==
    IF S = {} THEN <<>>
    ELSE LET m == CHOOSE m \in S : \A x \in S : m <= x
         IN  <<m>> \o SortedSeq(S \ {m})

\* pd.concat(series, axis=1): one column per Series, one row per index label
\* of any of them, null where a Series has no value for the label
ConcatColumns(series) ==
    LET labels == SortedSeq(UNION {Range(series[k].index) : k \in 1..Len(series)})
        ValueAt(sr, label) ==
            IF label \in Range(sr.index)
            THEN sr.values[CHOOSE i \in 1..Len(sr.index) : sr.index[i] = label]
            ELSE NullOf(sr.name)
        names == [k \in 1..Len(series) |-> series[k].name]
    IN  DataFrame(names,
            [n \in 1..Len(labels) |->
                [c \in Range(names) |->
                    ValueAt(series[CHOOSE k \in 1..Len(series) : series[k].name = c],
                            labels[n])]])


RECURSIVE FlatMapRows(_, _, _)
FlatMapRows(rows, F(_), i) ==
    IF i > Len(rows) THEN <<>> ELSE F(rows[i]) \o FlatMapRows(rows, F, i + 1)

\* column names of left.merge(right, on=key): overlapping columns get the
\* suffixes _x and _y
MergeOverlap(left, right, key) ==
    (Range(left.columns) \cap Range(right.columns)) \ {key}

MergeColumns(left, right, key) ==
    LET overlap == MergeOverlap(left, right, key)
        rightCols == SelectSeq(right.columns, LAMBDA c : c # key)
    IN  [i \in 1..Len(left.columns) |->
            IF left.columns[i] \in overlap THEN left.columns[i] \o "_x"
                                           ELSE left.columns[i]]
        \o
        [i \in 1..Len(rightCols) |->
            IF rightCols[i] \in overlap THEN rightCols[i] \o "_y" ELSE rightCols[i]]

\* pandas raises MergeError when the suffixes produce a column name twice
MergeCollides(left, right, key) ==
    LET cols == MergeColumns(left, right, key)
    IN  Cardinality(Range(cols)) # Len(cols)

\* left.merge(right, on=key, how='left'): every left row, in order, once per
\* right row of the same key, or once with nulls when no right row has the key
MergeInner(left, right, key) ==
    LET overlap == MergeOverlap(left, right, key)
        cols == MergeColumns(left, right, key)
        IsLeft(k) == \E c \in Range(left.columns) :
                          (IF c \in overlap THEN c \o "_x" ELSE c) = k
        FromLeft(k) == CHOOSE c \in Range(left.columns) :
                          (IF c \in overlap THEN c \o "_x" ELSE c) = k
        FromRight(k) == CHOOSE c \in Range(right.columns) \ {key} :
                          (IF c \in overlap THEN c \o "_y" ELSE c) = k
        RowsOf(l) ==
            LET matches == SelectSeq(right.rows, LAMBDA r : r[key] = l[key])
            IN  [j \in 1..Len(matches) |->
                    [k \in Range(cols) |->
                        IF IsLeft(k) THEN l[FromLeft(k)] ELSE matches[j][FromRight(k)]]]
    IN  DataFrame(cols, FlatMapRows(left.rows, RowsOf, 1))

Merge(left, right, key) ==
    LET overlap == MergeOverlap(left, right, key)
        cols == MergeColumns(left, right, key)
        FromLeft(k) == CHOOSE c \in Range(left.columns) :
                          (IF c \in overlap THEN c \o "_x" ELSE c) = k
        IsLeft(k) == \E c \in Range(left.columns) :
                          (IF c \in overlap THEN c \o "_x" ELSE c) = k
        FromRight(k) == CHOOSE c \in Range(right.columns) \ {key} :
                          (IF c \in overlap THEN c \o "_y" ELSE c) = k
        Joined(l, r) == [k \in Range(cols) |->
                            IF IsLeft(k) THEN l[FromLeft(k)] ELSE r[FromRight(k)]]
        Unmatched(l) == [k \in Range(cols) |->
                            IF IsLeft(k) THEN l[FromLeft(k)] ELSE NullOf(FromRight(k))]
        RowsOf(l) ==
            LET matches == SelectSeq(right.rows, LAMBDA r : r[key] = l[key])
            IN  IF matches = <<>> THEN <<Unmatched(l)>>
                ELSE [j \in 1..Len(matches) |-> Joined(l, matches[j])]
    IN  DataFrame(cols, FlatMapRows(left.rows, RowsOf, 1))

-----------------------------------------------------------------------------
(* video_types.py: combining the video_type columns of a merge *)

LabelRank(l) ==
    CASE l = "" -> 0
      [] l = "Live Stream" -> 1
      [] l = "Normal" -> 2
      [] l = "Premiere" -> 3
      [] l = "Short" -> 4

\* a <= b for the strings (labels joined by ' / ') a and b, as Python's sort
\* compares them
RECURSIVE StrLeq(_, _)
StrLeq(a, b) ==
    IF a = <<>> THEN TRUE
    ELSE IF b = <<>> THEN FALSE
    ELSE IF Head(a) = Head(b) THEN StrLeq(Tail(a), Tail(b))
    ELSE LabelRank(Head(a)) < LabelRank(Head(b))

\* ' / '.join(sorted(values)) of the values that are not NaN
_combine_values(value1, value2) ==
    LET v1 == IF IsNa(value1) THEN <<>> ELSE <<value1>>
        v2 == IF IsNa(value2) THEN <<>> ELSE <<value2>>
        values == v1 \o v2
        sorted == IF Len(values) = 2 /\ ~StrLeq(values[1], values[2])
                  THEN <<values[2], values[1]>> ELSE values
    IN  IF sorted = <<>> THEN EmptyString
        ELSE IF Len(sorted) = 1 THEN sorted[1]
        ELSE sorted[1] \o sorted[2]

combine_same_columns(dataframe, column_name) ==
    LET left_column == column_name \o "_x"
        right_column == column_name \o "_y"
    IN  IF HasColumn(dataframe, left_column) /\ HasColumn(dataframe, right_column)
        THEN LET combined == SetColumn(dataframe, column_name,
                               LAMBDA video : _combine_values(video[left_column],
                                                              video[right_column]))
             IN  Project(combined, SelectSeq(combined.columns,
                               LAMBDA c : c \notin {left_column, right_column}))
        ELSE dataframe

check_live_broadcast(va, is_live_broadcast) ==
    FilterRows(va, LAMBDA video : video["live_broadcast"] = is_live_broadcast)


-----------------------------------------------------------------------------
(* calculation.py and video_types.py: live broadcasts *)

\* Timedelta / Timestamp subtraction: NaT when either operand is NaT
TimeSub(a, b) == IF IsNaT(a) \/ IsNaT(b) THEN NaT ELSE a - b

live_broadcast_duration(dataframe) ==
    IF ~HasColumn(dataframe, "live_broadcast_duration")
    THEN SetColumn(dataframe, "live_broadcast_duration",
             LAMBDA r : TimeSub(r["actual_end_time"], r["actual_start_time"]))
    ELSE dataframe

\* the np.where condition; a comparison with NaT is False
InPremiereWindowInclusive(difference) ==
    /\ ~IsNaT(difference)
    /\ (PREMIERE_COUNTDOWN - BOUNDS) <= difference
    /\ difference <= (PREMIERE_COUNTDOWN + BOUNDS)

InPremiereWindow(difference) ==
    /\ ~IsNaT(difference)
    /\ (PREMIERE_COUNTDOWN - BOUNDS) < difference
    /\ difference < (PREMIERE_COUNTDOWN + BOUNDS)

\* Fix incorrect labels: the mask of the first .loc assignment
PremiereTooLongStrict(r) ==
    r["video_type"] = <<"Premiere">> /\ r["duration"] > PREMIERE_CUTOFF

PremiereTooLong(r) ==
    r["video_type"] = <<"Premiere">> /\ r["duration"] >= PREMIERE_CUTOFF

\* the mask of the second .loc assignment
LiveStreamTooShortAnyDuration(r) ==
    r["video_type"] = <<"Live Stream">> /\ r["duration"] <= LIVE_STREAM_CUTOFF

LiveStreamTooShort(r) ==
    /\ r["video_type"] = <<"Live Stream">>
    /\ r["duration"] <= LIVE_STREAM_CUTOFF
    /\ ~IsNaT(r["live_broadcast_duration"])

_classify_live_broadcast(live_broadcasts) ==
    LET lb1 == live_broadcast_duration(live_broadcasts)
        lb2 == SetColumn(lb1, "difference",
                   LAMBDA r : TimeSub(r["live_broadcast_duration"], r["duration"]))
        lb3 == SetColumn(lb2, "video_type",
                   LAMBDA r : IF InPremiereWindow(r["difference"])
                              THEN <<"Premiere">> ELSE <<"Live Stream">>)
        lb4 == SetColumn(lb3, "video_type",
                   LAMBDA r : IF PremiereTooLong(r)
                              THEN <<"Live Stream">> ELSE r["video_type"])
        lb5 == SetColumn(lb4, "video_type",
                   LAMBDA r : IF LiveStreamTooShort(r)
                              THEN <<"Premiere">> ELSE r["video_type"])
    IN  Project(lb5, <<"video_id", "live_broadcast_duration", "video_type">>)

is_live_stream(va) ==
    LET live_broadcasts == check_live_broadcast(va, TRUE)
        classified_data == _classify_live_broadcast(live_broadcasts)
        merged_data == Merge(va, classified_data, "video_id")
    IN  combine_same_columns(merged_data, "video_type")

\* the merge of is_live_stream raises instead of returning
is_live_stream_raises(va) ==
    MergeCollides(va, _classify_live_broadcast(check_live_broadcast(va, TRUE)), "video_id")

-----------------------------------------------------------------------------
(* video_types.py: videos that are not live broadcasts *)

\* the check with max_length=None: no upper limit
check_video_duration_no_max(duration, min_length, max_length) ==
    min_length <= duration

check_video_duration(duration, min_length, max_length) ==
    min_length <= duration /\ duration <= max_length

\* every status other than 200 taken for the redirect of a normal video
_check_response_code_else_normal(code) ==
    IF code = HTTP_OK THEN <<"Short">> ELSE <<"Normal">>

\* requests.head answered with status code
_check_response_code(code) ==
    IF code = HTTP_OK THEN <<"Short">>
    ELSE IF code = HTTP_SEE_OTHER THEN <<"Normal">>
    ELSE NaN

\* code: the status the HEAD request for the video would be answered with
_check_short_long(code, short_video) ==
    IF short_video = FALSE THEN <<"Normal">> ELSE _check_response_code(code)

_classify_non_live_broadcast(non_live_broadcasts, codes) ==
    LET nlb1 == SetColumn(non_live_broadcasts, "short_video",
                    LAMBDA r : check_video_duration(r["duration"], MIN_LENGTH,
                                                    SHORT_MAX_LENGTH))
        nlb2 == SetColumn(nlb1, "video_type",
                    LAMBDA video : _check_short_long(codes[video["video_id"]],
                                                     video["short_video"]))
    IN  Project(nlb2, <<"video_id", "video_type">>)

is_short(va, codes) ==
    LET non_live_broadcasts == check_live_broadcast(va, FALSE)
        classified_data == _classify_non_live_broadcast(non_live_broadcasts, codes)
        merged_data == Merge(va, classified_data, "video_id")
    IN  combine_same_columns(merged_data, "video_type")

\* the video ids is_short sends a HEAD request for
ProbedIds(va) ==
    {r["video_id"] : r \in {x \in Range(check_live_broadcast(va, FALSE).rows) :
        check_video_duration(x["duration"], MIN_LENGTH, SHORT_MAX_LENGTH)}}


-----------------------------------------------------------------------------
(* video_keywords.py: keywords of a title *)

\* A string is the sequence of its characters. The brackets that are not
\* ASCII are named by their code points: U3010 U3011 are the lenticular
\* brackets, U226A U226B the double angle brackets, U300E U300F the white
\* corner brackets, U300C U300D the corner brackets; U516C U5F0F and U96D1
\* U8AC7 are the letters of two Japanese keywords.
UpperCase == <<"A", "B", "C", "D", "E", "F", "G", "H", "I", "J", "K", "L", "M",
               "N", "O", "P", "Q", "R", "S", "T", "U", "V", "W", "X", "Y", "Z">>

LowerCase == <<"a", "b", "c", "d", "e", "f", "g", "h", "i", "j", "k", "l", "m",
               "n", "o", "p", "q", "r", "s", "t", "u", "v", "w", "x", "y", "z">>

AsciiLetters == Range(UpperCase) \cup Range(LowerCase)

Digits == {"0", "1", "2", "3", "4", "5", "6", "7", "8", "9"}

\* \w of a Python 3 str pattern
WordChars == AsciiLetters \cup Digits \cup {"_", "U516C", "U5F0F", "U96D1", "U8AC7"}

\* the six bracket styles of the pattern of extract_bracketed_words
BracketPairs == << <<"U3010", "U3011">>, <<"U226A", "U226B">>, <<"U300E", "U300F">>,
                   <<"U300C", "U300D">>, <<"[", "]">>, <<"(", ")">> >>

\* the character class `brackets`
BracketChars == UNION {{BracketPairs[i][1], BracketPairs[i][2]} : i \in 1..Len(BracketPairs)}

\* re.IGNORECASE compares characters by their lower case
Lower(c) ==
    IF \E i \in 1..Len(UpperCase) : UpperCase[i] = c
    THEN LowerCase[CHOOSE i \in 1..Len(UpperCase) : UpperCase[i] = c]
    ELSE c

\* re.sub(brackets, '', text)
StripBrackets(text) == SelectSeq(text, LAMBDA c : c \notin BracketChars)

\* the bracket pattern with .* between the opener and the closer: the match
\* ends at the last closer of the style
BracketMatchEndGreedy(title, i) ==
    IF \E s \in 1..Len(BracketPairs) : BracketPairs[s][1] = title[i]
    THEN LET s == CHOOSE s \in 1..Len(BracketPairs) : BracketPairs[s][1] = title[i]
             stops == {j \in (i + 1)..Len(title) : title[j] = BracketPairs[s][2]}
         IN  IF stops = {} THEN 0
             ELSE CHOOSE j \in stops : \A k \in stops : j >= k
    ELSE 0

\* end of the match of the bracket pattern that starts at position i, or 0:
\* an opener, any characters that are neither that opener nor its closer,
\* then the closer
BracketMatchEnd(title, i) ==
    IF \E s \in 1..Len(BracketPairs) : BracketPairs[s][1] = title[i]
    THEN LET s == CHOOSE s \in 1..Len(BracketPairs) : BracketPairs[s][1] = title[i]
             stops == {j \in (i + 1)..Len(title) :
                          title[j] \in {BracketPairs[s][1], BracketPairs[s][2]}}
         IN  IF stops = {} THEN 0
             ELSE LET j == CHOOSE j \in stops : \A k \in stops : j <= k
                  IN  IF title[j] = BracketPairs[s][2] THEN j ELSE 0
    ELSE 0

\* the matches of pattern.finditer(title) from position i on, brackets removed
RECURSIVE BracketedFrom(_, _)
BracketedFrom(title, i) ==
    IF i > Len(title) THEN {}
    ELSE LET end == BracketMatchEnd(title, i)
         IN  IF end > 0
             THEN {StripBrackets(SubSeq(title, i, end))} \cup BracketedFrom(title, end + 1)
             ELSE BracketedFrom(title, i + 1)

extract_bracketed_words(title) == BracketedFrom(title, 1)

\* \b before position i: exactly one of title[i-1], title[i] is a word character
WordBoundary(title, i) ==
    LET before == i > 1 /\ title[i - 1] \in WordChars
        after == i <= Len(title) /\ title[i] \in WordChars
    IN  before # after

\* positions where \bkeyword\b matches the title, ignoring case
KeywordMatches(title, keyword) ==
    {i \in 1..(Len(title) - Len(keyword) + 1) :
        /\ \A k \in 1..Len(keyword) : Lower(title[i + k - 1]) = Lower(keyword[k])
        /\ WordBoundary(title, i)
        /\ WordBoundary(title, i + Len(keyword))}

\* match.group() of re.search: the text of the title at the first match
KeywordFound(title, keyword) ==
    LET matches == KeywordMatches(title, keyword)
        i == CHOOSE i \in matches : \A j \in matches : i <= j
    IN  SubSeq(title, i, i + Len(keyword) - 1)

\* the keyword as the bank writes it instead of the text matched
extract_keywords_as_listed(title, keywords) ==
    {keywords[n] : n \in {n \in 1..Len(keywords) :
                             KeywordMatches(title, keywords[n]) # {}}}

extract_keywords(title, keywords) ==
    {KeywordFound(title, keywords[n]) :
        n \in {n \in 1..Len(keywords) : KeywordMatches(title, keywords[n]) # {}}}

\* end of the match of #[A-Za-z0-9]*[A-Za-z]+ that starts at position i, or 0
HashtagMatchEnd(title, i) ==
    IF title[i] # "#" THEN 0
    ELSE LET run == {k \in (i + 1)..Len(title) :
                        \A j \in (i + 1)..k : title[j] \in AsciiLetters \cup Digits}
             letters == {k \in run : title[k] \in AsciiLetters}
         IN  IF letters = {} THEN 0
             ELSE CHOOSE k \in letters : \A j \in letters : j <= k

RECURSIVE HashtagsFrom(_, _)
HashtagsFrom(title, i) ==
    IF i > Len(title) THEN {}
    ELSE LET end == HashtagMatchEnd(title, i)
         IN  IF end > 0
             THEN {SubSeq(title, i, end)} \cup HashtagsFrom(title, end + 1)
             ELSE HashtagsFrom(title, i + 1)

extract_hashtags(title) == HashtagsFrom(title, 1)

\* the body of the loop over the titles in _extract_member_keywords
TitleKeywords(title, search_keywords) ==
    extract_bracketed_words(title)
    \cup extract_keywords(title, search_keywords["English"])
    \cup extract_keywords(title, search_keywords["Japanese"])
    \cup extract_keywords(title, search_keywords["Indonesian"])
    \cup extract_hashtags(title)

\* keyword_banks.get(language, {}): a bank is a sequence of
\* [category, keywords], in the order of the dict
BankOf(banks, language) ==
    IF \E i \in 1..Len(banks) : banks[i].language = language
    THEN banks[CHOOSE i \in 1..Len(banks) : banks[i].language = language].bank
    ELSE <<>>

RECURSIVE unpack_keywords(_)
unpack_keywords(keyword_bank) ==
    IF keyword_bank = <<>> THEN <<>>
    ELSE Head(keyword_bank).keywords \o unpack_keywords(Tail(keyword_bank))

SearchKeywords(banks) ==
    [language \in {"English", "Japanese", "Indonesian"} |->
        unpack_keywords(BankOf(banks, language))]

\* _check_search_keyword raising when some language has no keyword
NoSearchKeywordOfSomeLanguage(search_keywords) ==
    \E language \in DOMAIN search_keywords : search_keywords[language] = <<>>

\* _check_search_keyword raises ValueError
NoSearchKeyword(search_keywords) ==
    \A language \in DOMAIN search_keywords : search_keywords[language] = <<>>

_extract_member_keywords(va, search_keywords) ==
    LET titles == ColumnOf(va, "title")
        video_ids == ColumnOf(va, "video_id")
        all_results == [i \in 1..Len(titles.values) |->
                           TitleKeywords(titles.values[i], search_keywords)]
        title_keywords == Series("title_keywords", RangeIndex(Len(all_results)),
                                 all_results)
    IN  ConcatColumns(<<video_ids, titles, title_keywords>>)

-----------------------------------------------------------------------------
(* reformatting.py and content_types.py: content types of a video *)

RECURSIVE AppendNew(_, _)
AppendNew(seq, more) ==
    IF more = <<>> THEN seq
    ELSE AppendNew(IF Head(more) \in Range(seq) THEN seq ELSE Append(seq, Head(more)),
                   Tail(more))

Categories(bank) == [i \in 1..Len(bank) |-> bank[i].category]

\* the content types of the first bank after confirm_content_types: its own,
\* then those the later banks add, in their order
RECURSIVE ConfirmedTypes(_, _)
ConfirmedTypes(types, banks) ==
    IF banks = <<>> THEN types
    ELSE ConfirmedTypes(AppendNew(types, Categories(Head(banks))), Tail(banks))

KeywordsOf(bank, content_type) ==
    IF \E i \in 1..Len(bank) : bank[i].category = content_type
    THEN bank[CHOOSE i \in 1..Len(bank) : bank[i].category = content_type].keywords
    ELSE <<>>

RECURSIVE AllKeywordsOf(_, _)
AllKeywordsOf(banks, content_type) ==
    IF banks = <<>> THEN <<>>
    ELSE KeywordsOf(Head(banks), content_type) \o AllKeywordsOf(Tail(banks), content_type)

\* keyword_banks: the dictionary of banks given as the only argument
combine_keyword_banks(banks) ==
    LET bankList == [i \in 1..Len(banks) |-> banks[i].bank]
        types == ConfirmedTypes(<<>>, bankList)
    IN  [i \in 1..Len(types) |->
            [category |-> types[i], keywords |-> AllKeywordsOf(bankList, types[i])]]

\* per extracted keyword, the first content type whose keywords hold it: the
\* inner loop breaks there
_check_keywords(keyword_set, keyword_bank) ==
    LET Holders(extracted_keyword) ==
            {i \in 1..Len(keyword_bank) :
                extracted_keyword \in Range(keyword_bank[i].keywords)}
    IN  {keyword_bank[CHOOSE i \in Holders(k) : \A j \in Holders(k) : i <= j].category :
            k \in {k \in keyword_set : Holders(k) # {}}}

_classify_member_videos(vtk, keyword_bank) ==
    LET video_ids == ColumnOf(vtk, "video_id")
        keyword_sets == ColumnOf(vtk, "title_keywords")
        all_results == [i \in 1..Len(keyword_sets.values) |->
                           _check_keywords(keyword_sets.values[i], keyword_bank)]
        results == Series("content_types", RangeIndex(Len(all_results)), all_results)
    IN  ConcatColumns(<<video_ids, results>>)

-----------------------------------------------------------------------------
(* summary.py: counts by video type *)

\* video_types.groupby('video_type').count(): per video type present, the
\* number of non-null cells of each other column
GroupCount(df, group_column, value, column) ==
    Cardinality({i \in 1..Len(df.rows) :
                    /\ df.rows[i][group_column] = value
                    /\ df.rows[i][column] # NullOf(column)})

GroupIndex(df, group_column) ==
    {df.rows[i][group_column] : i \in 1..Len(df.rows)} \ {NaN}

\* f'{video_type.lower().replace(" ", "_")}_(count)'
CountKey(video_type) ==
    CASE video_type = "Normal" -> "normal_(count)"
      [] video_type = "Short" -> "short_(count)"
      [] video_type = "Live Stream" -> "live_stream_(count)"
      [] video_type = "Premiere" -> "premiere_(count)"

\* the summary without the else branch: no key for a type without videos
summarize_video_types_present_only(video_types) ==
    LET present == {t \in Range(VIDEO_TYPES) :
                       <<t>> \in GroupIndex(video_types, "video_type")}
    IN  [key \in {CountKey(t) : t \in present} |->
            GroupCount(video_types, "video_type",
                       <<CHOOSE t \in present : CountKey(t) = key>>, "video_id")]

summarize_video_types(video_types) ==
    LET countsIndex == GroupIndex(video_types, "video_type")
        countsColumns == SelectSeq(video_types.columns, LAMBDA c : c # "video_type")
        Count(video_type) ==
            IF <<video_type>> \in countsIndex
            THEN GroupCount(video_types, "video_type", <<video_type>>, countsColumns[1])
            ELSE 0
    IN  [key \in {CountKey(t) : t \in Range(VIDEO_TYPES)} |->
            Count(CHOOSE t \in Range(VIDEO_TYPES) : CountKey(t) = key)]

\* the table of video ids and video types summarize_video_types is given
video_types_table(va) == Project(va, <<"video_id", "video_type">>)

NoSummary == [key \in {} |-> 0]

(* summary.py: counts by content type *)

CONTENT_TYPES ==
    <<"3DLive", "Chatting", "Collab", "Debut", "Drawing", "Gaming", "Karaoke",
      "Music Video", "Other", "Outfit Reveal", "Q&A", "Review",
      "Superchat Reading", "VR", "Watchalong">>

\* f'{content_type.lower().replace(" ", "_")}_(count)'
ContentCountKey(content_type) ==
    CASE content_type = "3DLive" -> "3dlive_(count)"
      [] content_type = "Chatting" -> "chatting_(count)"
      [] content_type = "Collab" -> "collab_(count)"
      [] content_type = "Debut" -> "debut_(count)"
      [] content_type = "Drawing" -> "drawing_(count)"
      [] content_type = "Gaming" -> "gaming_(count)"
      [] content_type = "Karaoke" -> "karaoke_(count)"
      [] content_type = "Music Video" -> "music_video_(count)"
      [] content_type = "Other" -> "other_(count)"
      [] content_type = "Other Content" -> "other_content_(count)"
      [] content_type = "Outfit Reveal" -> "outfit_reveal_(count)"
      [] content_type = "Q&A" -> "q&a_(count)"
      [] content_type = "Review" -> "review_(count)"
      [] content_type = "Superchat Reading" -> "superchat_reading_(count)"
      [] content_type = "VR" -> "vr_(count)"
      [] content_type = "Watchalong" -> "watchalong_(count)"

\* Counter(all_content_types)[content_type]: a set holds a type at most once
ContentCounter(ct, content_type) ==
    Cardinality({i \in 1..Len(ct.rows) : content_type \in ct.rows[i]["content_types"]})

summarize_content_types(ct) ==
    [key \in {ContentCountKey(t) : t \in Range(CONTENT_TYPES)} |->
        ContentCounter(ct, CHOOSE t \in Range(CONTENT_TYPES) : ContentCountKey(t) = key)]

-----------------------------------------------------------------------------
(* utils/exporting.py: the session directories and the exported files *)

\* SESSION_PATH = None
None == <<>>

\* the instants of datetime.utcnow(): the date and the time of day
Instant(date, hour, minute) == [date |-> date, hour |-> hour, minute |-> minute]

\* the timestamp arguments of the exports
NoTimestamp == [kind |-> "None"]

DatetimeOf(now) == [kind |-> "datetime", date |-> now.date, hour |-> now.hour, minute |-> now.minute]

StrTimestamp(text) == [kind |-> "str", text |-> text]

\* the state of the file system and of definitions.SESSION_PATH an operation of
\* exporting.py works on, with the exception it raised and the file it wrote
FileSystem(dirs, fls, session_path, made) ==
    [directories |-> dirs, files |-> fls, SESSION_PATH |-> session_path,
     created |-> made, error |-> "none", written |-> None]

\* Path.exists()
Exists(fs, path) == path \in fs.directories \cup fs.files

\* Path.mkdir(parents=True)
Mkdir(fs, full_path) ==
    [fs EXCEPT !.directories = @ \cup {SubSeq(full_path, 1, k) : k \in 1..Len(full_path)}]

RECURSIVE AdjustFrom(_, _, _)
AdjustFrom(fs, old_path, counter) ==
    LET new_path == SubSeq(old_path, 1, Len(old_path) - 1)
                    \o <<old_path[Len(old_path)] \o "-" \o ToString(counter)>>
    IN  IF ~Exists(fs, new_path) THEN new_path
        ELSE AdjustFrom(fs, old_path, counter + 1)

\* the adjusted path that always takes the first number
_adjust_file_path_first_number(fs, old_path) ==
    SubSeq(old_path, 1, Len(old_path) - 1) \o <<old_path[Len(old_path)] \o "-2">>

_adjust_file_path(fs, old_path) == AdjustFrom(fs, old_path, 2)

\* the path create_directory makes and returns
DirectoryPath(fs, parent_dir_path, dir_name, add_date, now) ==
    LET name == IF add_date THEN now.date \o "_" \o dir_name ELSE dir_name
        full_path == Append(parent_dir_path, name)
    IN  IF Exists(fs, full_path) THEN _adjust_file_path(fs, full_path) ELSE full_path

\* mkdir raises FileExistsError when the path exists
create_directory(fs, parent_dir_path, dir_name, add_date, now) ==
    LET full_path == DirectoryPath(fs, parent_dir_path, dir_name, add_date, now)
    IN  IF Exists(fs, full_path) THEN [fs EXCEPT !.error = "FileExistsError"]
        ELSE Mkdir(fs, full_path)

create_session(fs, now) ==
    LET session_dir_path == DirectoryPath(fs, <<>>, "YT-DAPI_Session", TRUE, now)
        made == create_directory(fs, <<>>, "YT-DAPI_Session", TRUE, now)
    IN  IF made.error # "none" THEN made
        ELSE [made EXCEPT !.SESSION_PATH = session_dir_path,
                          !.created = Append(@, session_dir_path)]

\* f'{date}-{time}_{file_name}.{filetype}' of a timestamp string
TimestampedName(now, file_name) ==
    now.date \o "-" \o now.hour \o now.minute \o "_" \o file_name \o ".csv"

\* a datetime or Timestamp passes the type check and is then sliced, which
\* raises TypeError; any other timestamp that is not None raises TypeError
export_dataframe(fs, dir_path, file_name, timestamp, auto_timestamp, now) ==
    LET Export(to) ==
            IF to.error # "none" THEN to
            ELSE IF timestamp.kind = "None" /\ ~auto_timestamp
            THEN [to EXCEPT !.files = @ \cup {Append(dir_path, file_name \o ".csv")},
                            !.written = Append(dir_path, file_name \o ".csv")]
            ELSE IF timestamp.kind = "datetime" THEN [to EXCEPT !.error = "TypeError"]
            ELSE IF timestamp.kind # "None" THEN [to EXCEPT !.error = "TypeError"]
            ELSE [to EXCEPT !.files =
                                @ \cup {Append(dir_path, TimestampedName(now, file_name))},
                            !.written = Append(dir_path, TimestampedName(now, file_name))]
    IN  Given(fs, Export)

\* the session's directory dir_path, made when missing
SessionDirectory(fs, parent, name, now) ==
    IF fs.error # "none" \/ Exists(fs, Append(parent, name)) THEN fs
    ELSE create_directory(fs, parent, name, FALSE, now)

\* a session made at every export, whatever SESSION_PATH is
WithSessionAnew(fs, now) == create_session(fs, now)

WithSession(fs, now) == IF fs.SESSION_PATH = None THEN create_session(fs, now) ELSE fs

export_channel_data(fs, filename, timestamp, auto_timestamp, now) ==
    LET Export(opened) ==
            LET dir_path == Append(opened.SESSION_PATH, "Channel")
            IN  export_dataframe(SessionDirectory(opened, opened.SESSION_PATH, "Channel",
                                                  now),
                                 dir_path, filename, timestamp, auto_timestamp, now)
    IN  Given(WithSession(fs, now), Export)

\* member_name.replace(' ', '_')
Underscored(member_name) ==
    CASE member_name = "Tokino Sora" -> "Tokino_Sora"
      [] member_name = "Roboco" -> "Roboco"
      [] member_name = "Sakura Miko" -> "Sakura_Miko"

\* member_name.lower(), of the name with underscores
Lowered(member_name) ==
    CASE member_name = "Tokino_Sora" -> "tokino_sora"
      [] member_name = "Roboco" -> "roboco"
      [] member_name = "Sakura_Miko" -> "sakura_miko"

export_video_data(fs, member_name, filename, timestamp, auto_timestamp, now) ==
    LET Export(opened) ==
            LET name == Underscored(member_name)
                parent == Append(opened.SESSION_PATH, "Video")
            IN  export_dataframe(SessionDirectory(opened, parent, name, now),
                                 Append(parent, name), Lowered(name) \o "_" \o filename,
                                 timestamp, auto_timestamp, now)
    IN  Given(WithSession(fs, now), Export)

\* the instants the operations run at: two minutes of one day and the next day
Instants ==
    << Instant("2022-06-01", "23", "58"), Instant("2022-06-01", "23", "59"),
       Instant("2022-06-02", "00", "00") >>

Now == Instants[clock]

\* the file system and the session the operations of exporting.py see
Fs == FileSystem(directories, files, SESSION_PATH, created)

\* the file system and the session an operation of exporting.py leaves
Leaves(fs) ==
    /\ directories' = fs.directories
    /\ files' = fs.files
    /\ SESSION_PATH' = fs.SESSION_PATH
    /\ created' = fs.created

-----------------------------------------------------------------------------
(* datacollection/youtube/youtube_api.py: the requests to the YouTube Data API *)

\* pageToken=None, and a response without nextPageToken
NoToken == "None"

\* the token the API gives for page k of a playlist
PageToken(k) == "token-" \o ToString(k)

\* a request made: the resource, its parameters and what request.execute() did:
\* "ok", or the exception it raised
Request(resource_type, playlistId, pageToken, id, outcome) ==
    [resource_type |-> resource_type, playlistId |-> playlistId, pageToken |-> pageToken,
     id |-> id, outcome |-> outcome]

\* the outcome of the n-th request of a call of request_data: the request
\* schedule.at raises schedule.kind, and a request for the items of a playlist
\* without videos gets HttpError 404
OutcomeOf(schedule, n, found) ==
    IF schedule.at = n THEN schedule.kind
    ELSE IF ~found THEN "HttpError"
    ELSE "ok"

\* the response of the API to a request for the page of a playlist: a playlist
\* is the sequence of its pages, a page the sequence of its items
PlaylistPage(playlist, pageToken) ==
    LET k == IF pageToken = NoToken THEN 1
             ELSE CHOOSE j \in 1..Len(playlist) : PageToken(j) = pageToken
    IN  IF k < Len(playlist)
        THEN [items |-> playlist[k], nextPageToken |-> PageToken(k + 1)]
        ELSE [items |-> playlist[k]]

\* the token that ends the loop after the first page
NextTokenNever(response) == NoToken

\* response.get('nextPageToken', None)
NextToken(response) ==
    IF "nextPageToken" \in DOMAIN response THEN response.nextPageToken ELSE NoToken

\* what a call of request_data gives: the responses, the requests it made and
\* the exception that left it
Requested(responses_, requests_, error_) ==
    [responses |-> responses_, requests |-> requests_, error |-> error_]

\* the while loop of request_data: HttpError ends the loop, any other
\* exception leaves request_data
RECURSIVE PlaylistItems(_, _, _, _, _, _)
PlaylistItems(playlist, playlist_id, token, schedule, sent, received) ==
    LET outcome == OutcomeOf(schedule, Len(sent) + 1, playlist # <<>>)
        requests_ == Append(sent, Request("playlistitems", playlist_id, token, <<>>, outcome))
    IN  IF outcome = "HttpError" THEN Requested(received, requests_, "none")
        ELSE IF outcome # "ok" THEN Requested(<<>>, requests_, outcome)
        ELSE LET response == PlaylistPage(playlist, token)
                 next == NextToken(response)
             IN  IF next = NoToken
                 THEN Requested(Append(received, response), requests_, "none")
                 ELSE PlaylistItems(playlist, playlist_id, next, schedule, requests_,
                                    Append(received, response))

\* math.ceil(len(data) / batch_size)
Ceil(n, d) == (n + d - 1) \div d

\* only the full batches: the remaining values are left out
split_n_sized_batches_full_only(data, batch_size) ==
    [batch \in 1..(Len(data) \div batch_size) |->
        SubSeq(data, (batch - 1) * batch_size + 1, batch * batch_size)]

\* utils/data_reformatting.py
split_n_sized_batches(data, batch_size) ==
    [batch \in 1..Ceil(Len(data), batch_size) |->
        IF Len(data) - (batch * batch_size) < 0
        THEN SubSeq(data, (batch - 1) * batch_size + 1, Len(data))
        ELSE SubSeq(data, (batch - 1) * batch_size + 1, batch * batch_size)]

\* the for loop of request_data: every exception leaves request_data.
\* resources gives the resource of each id the API knows.
RECURSIVE Batches(_, _, _, _, _, _)
Batches(resources, resource_type, batched_ids, schedule, sent, received) ==
    IF Len(sent) = Len(batched_ids) THEN Requested(received, sent, "none")
    ELSE LET batch == batched_ids[Len(sent) + 1]
             outcome == OutcomeOf(schedule, Len(sent) + 1, TRUE)
             requests_ == Append(sent, Request(resource_type, "", NoToken, batch, outcome))
             response == [items |-> [i \in 1..Len(batch) |-> resources[batch[i]]]]
         IN  IF outcome # "ok" THEN Requested(<<>>, requests_, outcome)
             ELSE Batches(resources, resource_type, batched_ids, schedule, requests_,
                          Append(received, response))

\* _check_resource_type: the resource type in lower case, singular or plural
ResourceType(resource_type) ==
    CASE resource_type \in {"channel", "channels"} -> "channels"
      [] resource_type \in {"playlistItem", "playlistItems", "playlistitem", "playlistitems"}
            -> "playlistitems"
      [] resource_type \in {"video", "videos"} -> "videos"
      [] OTHER -> "NameError"

\* resources: for playlist items the playlist of ids, for channels and videos
\* the resource of each id
request_data(resources, resource_type, ids, max_results, schedule) ==
    IF ResourceType(resource_type) = "NameError" THEN Requested(<<>>, <<>>, "NameError")
    ELSE IF ResourceType(resource_type) = "playlistitems"
    THEN PlaylistItems(resources, ids, NoToken, schedule, <<>>, <<>>)
    ELSE Batches(resources, ResourceType(resource_type),
                 split_n_sized_batches(ids, max_results), schedule, <<>>, <<>>)

-----------------------------------------------------------------------------
(* datacollection/youtube: the channel data and the video data *)

\* the items of the responses, in the order received
RECURSIVE Items(_)
Items(responses_) ==
    IF responses_ = <<>> THEN <<>> ELSE Head(responses_).items \o Items(Tail(responses_))

\* what an operation that collects data gives: the data returned (None when it
\* raised), the requests made, the file system left and the exception raised
Collected(data, requests_, fs) ==
    [data |-> data, requests |-> requests_, fs |-> fs, error |-> fs.error]

get_channel_titles(results) ==
    DataFrame(<<"channel_id", "channel_title">>,
              [i \in 1..Len(results) |->
                  [channel_id |-> results[i].id, channel_title |-> results[i].title]])

get_channel_stats(results) ==
    DataFrame(<<"channel_id", "subscriber_count", "video_count", "view_count">>,
              [i \in 1..Len(results) |->
                  [channel_id |-> results[i].id,
                   subscriber_count |-> results[i].subscriberCount,
                   video_count |-> results[i].videoCount,
                   view_count |-> results[i].viewCount]])

get_channel_thumbnail_urls(results) ==
    DataFrame(<<"channel_id", "default", "medium", "high">>,
              [i \in 1..Len(results) |->
                  [channel_id |-> results[i].id, default |-> results[i].thumbnails[1],
                   medium |-> results[i].thumbnails[2], high |-> results[i].thumbnails[3]]])

get_uploads_playlist_ids(results) ==
    DataFrame(<<"channel_id", "uploads_playlist_id">>,
              [i \in 1..Len(results) |->
                  [channel_id |-> results[i].id, uploads_playlist_id |-> results[i].uploads]])

\* get_channel_data: with export_data the first export, of the channel titles
\* with the datetime of the responses, raises
get_channel_data(fs, session_path, channels, channel_ids, max_results, export_data, schedule, now) ==
    LET WithExport(requested, exported) ==
            LET results == Items(requested.responses)
            IN  IF exported.error # "none"
                THEN Collected(None, requested.requests, exported)
                ELSE Collected([channel_titles |-> get_channel_titles(results),
                                channel_stats |-> get_channel_stats(results),
                                channel_thumbnail_urls |-> get_channel_thumbnail_urls(results),
                                uploads_playlist_ids |-> get_uploads_playlist_ids(results)],
                               requested.requests, exported)
        WithResponses(made, requested) ==
            IF requested.error # "none"
            THEN Collected(None, requested.requests, [made EXCEPT !.error = requested.error])
            ELSE Given(IF export_data
                       THEN export_channel_data(made, "channel_titles", DatetimeOf(now),
                                                TRUE, now)
                       ELSE made,
                       LAMBDA exported : WithExport(requested, exported))
        WithDirectory(made) ==
            IF made.error # "none" THEN Collected(None, <<>>, made)
            ELSE Given(request_data(channels, "channel", channel_ids, max_results, schedule),
                       LAMBDA requested : WithResponses(made, requested))
    IN  Given(IF export_data /\ session_path # None
              THEN create_directory(fs, session_path, "Channel", FALSE, now)
              ELSE fs,
              WithDirectory)

\* np.NaN in a column of counts
NoCount == -1

\* dictionary.get(key, np.NaN), for the counts and for the times
Get(dictionary, key, default) ==
    IF key \in DOMAIN dictionary THEN dictionary[key] ELSE default

\* the table get_video_ids builds
VideoIdsTable(results) ==
    DataFrame(<<"video_id", "added_to_playlist">>,
              [i \in 1..Len(results) |->
                  [video_id |-> results[i].videoId,
                   added_to_playlist |-> results[i].publishedAt]])

\* get_video_ids giving the table of no video ids when there is no response
get_video_ids_always_table(fs, member_name, responses_, export_data, now) ==
    LET exported == IF export_data
                    THEN export_video_data(fs, member_name, "uploads_video_ids",
                                           DatetimeOf(now), TRUE, now)
                    ELSE fs
    IN  Collected(IF exported.error = "none" THEN VideoIdsTable(Items(responses_))
                  ELSE None,
                  <<>>, exported)

\* get_video_ids: None when there is no response; with export_data the export,
\* with the datetime of the responses, raises
get_video_ids(fs, member_name, responses_, export_data, now) ==
    IF responses_ = <<>> THEN Collected(None, <<>>, fs)
    ELSE LET Made(exported) ==
                 Collected(IF exported.error = "none" THEN VideoIdsTable(Items(responses_))
                           ELSE None,
                           <<>>, exported)
         IN  Given(IF export_data
                   THEN export_video_data(fs, member_name, "uploads_video_ids",
                                          DatetimeOf(now), TRUE, now)
                   ELSE fs,
                   Made)

\* the table with likes_enabled and comments_enabled taken from the counts
VideoStatsTableEnabledWhenCounted(results) ==
    DataFrame(<<"video_id", "view_count", "like_count", "likes_enabled",
                "comment_count", "comments_enabled">>,
              [i \in 1..Len(results) |->
                  [video_id |-> results[i].id,
                   view_count |-> Get(results[i].statistics, "viewCount", NoCount),
                   like_count |-> Get(results[i].statistics, "likeCount", NoCount),
                   likes_enabled |-> Get(results[i].statistics, "likeCount", NoCount) > 0,
                   comment_count |-> Get(results[i].statistics, "commentCount", NoCount),
                   comments_enabled |-> Get(results[i].statistics, "commentCount", NoCount) > 0]])

\* the table get_video_stats builds
VideoStatsTable(results) ==
    DataFrame(<<"video_id", "view_count", "like_count", "likes_enabled",
                "comment_count", "comments_enabled">>,
              [i \in 1..Len(results) |->
                  [video_id |-> results[i].id,
                   view_count |-> Get(results[i].statistics, "viewCount", NoCount),
                   like_count |-> Get(results[i].statistics, "likeCount", NoCount),
                   likes_enabled |-> "likeCount" \in DOMAIN results[i].statistics,
                   comment_count |-> Get(results[i].statistics, "commentCount", NoCount),
                   comments_enabled |-> "commentCount" \in DOMAIN results[i].statistics]])

get_video_stats(fs, member_name, responses_, export_data, now) ==
    LET Made(exported) ==
            Collected(IF exported.error = "none" THEN VideoStatsTable(Items(responses_)) ELSE None,
                      <<>>, exported)
    IN  Given(IF export_data
              THEN export_video_data(fs, member_name, "video_stats", DatetimeOf(now), TRUE, now)
              ELSE fs,
              Made)

\* the table get_video_attributes builds
VideoAttributesTable(results) ==
    LET Time(result, key) ==
            IF result.live_broadcast THEN Get(result.liveStreamingDetails, key, NaT) ELSE NaT
    IN  DataFrame(<<"video_id", "title", "publish_datetime", "duration", "category_id",
                    "live_broadcast", "scheduled_start_time", "scheduled_end_time",
                    "actual_start_time", "actual_end_time">>,
                  [i \in 1..Len(results) |->
                      [video_id |-> results[i].id,
                       title |-> results[i].title,
                       publish_datetime |-> results[i].publishedAt,
                       duration |-> results[i].duration,
                       category_id |-> results[i].categoryId,
                       live_broadcast |-> results[i].live_broadcast,
                       scheduled_start_time |-> Time(results[i], "scheduledStartTime"),
                       scheduled_end_time |-> Time(results[i], "scheduledEndTime"),
                       actual_start_time |-> Time(results[i], "actualStartTime"),
                       actual_end_time |-> Time(results[i], "actualEndTime")]])

get_video_attributes(fs, member_name, responses_, export_data, now) ==
    LET Made(exported) ==
            Collected(IF exported.error = "none" THEN VideoAttributesTable(Items(responses_)) ELSE None,
                      <<>>, exported)
    IN  Given(IF export_data
              THEN export_video_data(fs, member_name, "video_attributes", DatetimeOf(now), TRUE, now)
              ELSE fs,
              Made)

\* _video_ids_exist: the video data of the member, video_ids included
_video_ids_exist(fs, videos, member_name, video_ids, max_results, export_data, schedule, now) ==
    LET ids == ColumnOf(video_ids, "video_id").values
        WithStats(requested, attributes, stats) ==
            IF stats.error # "none" THEN Collected(None, requested.requests, stats.fs)
            ELSE Collected([video_ids |-> video_ids, video_attributes |-> attributes.data,
                            video_stats |-> stats.data],
                           requested.requests, stats.fs)
        WithAttributes(requested, attributes) ==
            IF attributes.error # "none"
            THEN Collected(None, requested.requests, attributes.fs)
            ELSE Given(get_video_stats(attributes.fs, member_name, requested.responses,
                                       export_data, now),
                       LAMBDA stats : WithStats(requested, attributes, stats))
        WithResponses(requested) ==
            IF requested.error # "none"
            THEN Collected(None, requested.requests, [fs EXCEPT !.error = requested.error])
            ELSE Given(get_video_attributes(fs, member_name, requested.responses,
                                            export_data, now),
                       LAMBDA attributes : WithAttributes(requested, attributes))
    IN  Given(request_data(videos, "video", ids, max_results, schedule), WithResponses)

\* _link_names_to_ids: the inner merge of the starting data with the playlist
\* ids on the channel id, as the names and the playlist ids
RECURSIVE _link_names_to_ids(_, _)
_link_names_to_ids(starting_rows, playlist_ids_df) ==
    IF starting_rows = <<>> THEN <<>>
    ELSE LET left == Head(starting_rows)
             matches == SelectSeq(playlist_ids_df.rows,
                                  LAMBDA r : r["channel_id"] = left.youtube_channel_id)
         IN  [i \in 1..Len(matches) |->
                 [name |-> left.name, id |-> matches[i]["uploads_playlist_id"]]]
             \o _link_names_to_ids(Tail(starting_rows), playlist_ids_df)

\* the for loop of get_video_data from the member at position i on: api holds
\* the playlists and the videos of the API, schedules the outcome of the
\* requests for each member, done the result so far
RECURSIVE MembersFrom(_, _, _, _, _, _, _, _)
MembersFrom(names_and_ids, i, api, max_results, export_data, schedules, now, done) ==
    IF i > Len(names_and_ids) THEN done
    ELSE LET member_name == names_and_ids[i].name
             playlist_id == names_and_ids[i].id
             Next_(sofar) == MembersFrom(names_and_ids, i + 1, api, max_results,
                                         export_data, schedules, now, sofar)
             WithVideoData(asked, video_data) ==
                 IF video_data.error # "none"
                 THEN Collected(None, asked \o video_data.requests, video_data.fs)
                 ELSE Given(Collected((member_name :> video_data.data) @@ done.data,
                                      asked \o video_data.requests, video_data.fs),
                            Next_)
             WithVideoIds(asked, video_ids) ==
                 IF video_ids.error # "none" THEN Collected(None, asked, video_ids.fs)
                 ELSE IF video_ids.data = None
                 THEN Given(Collected(done.data, asked, video_ids.fs), Next_)
                 ELSE Given(_video_ids_exist(video_ids.fs, api.videos, member_name,
                                             video_ids.data, max_results, export_data,
                                             schedules[i].video, now),
                            LAMBDA video_data : WithVideoData(asked, video_data))
             WithResponses(playlist_responses) ==
                 IF playlist_responses.error # "none"
                 THEN Collected(None, done.requests \o playlist_responses.requests,
                                [done.fs EXCEPT !.error = playlist_responses.error])
                 ELSE Given(get_video_ids(done.fs, member_name,
                                          playlist_responses.responses, export_data, now),
                            LAMBDA video_ids :
                                WithVideoIds(done.requests \o playlist_responses.requests,
                                             video_ids))
         IN  Given(request_data(api.playlists[playlist_id], "playlistItems", playlist_id,
                                max_results, schedules[i].playlist),
                   WithResponses)

\* member_video_data = {}
NoVideoData == [member_name \in {} |-> None]

get_video_data(fs, starting_data, playlist_ids_df, api, max_results, export_data, schedules, now) ==
    MembersFrom(_link_names_to_ids(starting_data.rows, playlist_ids_df), 1, api,
                max_results, export_data, schedules, now,
                Collected(NoVideoData, <<>>, fs))

-----------------------------------------------------------------------------
(* datapreparation/summary.py: the summary by unit *)

\* the units of each branch of each group, in the order of the dictionary
GROUPS_BRANCHES_UNITS ==
    << [group |-> "Hololive", branch |-> "Japan",
        units |-> <<"0th Generation", "1st Generation", "2nd Generation", "3rd Generation",
                    "4th Generation", "5th Generation", "6th Generation", "GAMERS">>],
       [group |-> "Hololive", branch |-> "Indonesia",
        units |-> <<"1st Generation", "2nd Generation", "3rd Generation">>],
       [group |-> "Hololive", branch |-> "English",
        units |-> <<"-Myth-", "Project: HOPE", "-Council-">>],
       [group |-> "Holostars", branch |-> "Japan",
        units |-> <<"1st Generation", "2nd Generation", "3rd Generation", "UPROAR!!">>],
       [group |-> "Holostars", branch |-> "English", units |-> <<"-TEMPUS-">>] >>

\* reformatting.convert_to_multilevel(dataframe, level): the columns of the
\* table under the label level, a column being the pair <<level, column>>
convert_to_multilevel(dataframe, level) ==
    LET Labels(columns) == [i \in 1..Len(columns) |-> <<level, columns[i]>>]
        labels == Labels(dataframe.columns)
    IN  DataFrame(labels,
                  [i \in 1..Len(dataframe.rows) |->
                      [label \in Range(labels) |-> dataframe.rows[i][label[2]]]])

\* exporting.create_timestamp(): the date and the time of the call
create_timestamp(now) == DatetimeOf(now)

\* left.merge(right, left_on=[left_on], right_on=[right_on]): the inner merge,
\* in the order of the left rows; the two tables share no column but, when
\* left_on = right_on, the key
MergeOn(left, right, left_on, right_on) ==
    LET more == SelectSeq(right.columns, LAMBDA c : c \notin Range(left.columns))
        cols == left.columns \o more
        RowsOf(l) ==
            LET matches == SelectSeq(right.rows, LAMBDA r : r[right_on] = l[left_on])
            IN  [j \in 1..Len(matches) |->
                    [c \in Range(cols) |->
                        IF c \in Range(left.columns) THEN l[c] ELSE matches[j][c]]]
    IN  DataFrame(cols, FlatMapRows(left.rows, RowsOf, 1))

\* unit_data[column].sum()
RECURSIVE SumColumn(_, _)
SumColumn(rows, column) ==
    IF rows = <<>> THEN 0 ELSE Head(rows)[column] + SumColumn(Tail(rows), column)

UNIT_COLUMNS ==
    <<"group", "branch", "unit", "member_count", "subscriber_count", "video_count",
      "view_count", "total_video_duration", "total_live_stream_duration">>

\* the summary of one unit of a branch of a group
UnitSummary(merged_data, group, branch, unit) ==
    LET group_data == SelectSeq(merged_data.rows,
                                LAMBDA r : r[<<"member_data", "group">>] = group)
        branch_data == SelectSeq(group_data,
                                 LAMBDA r : r[<<"member_data", "branch">>] = branch)
        unit_data == SelectSeq(branch_data,
                               LAMBDA r : \/ r[<<"member_data", "unit">>] = unit
                                          \/ r[<<"member_data", "unit2">>] = unit)
    IN  [group |-> group, branch |-> branch, unit |-> unit,
         member_count |-> Len(unit_data),
         subscriber_count |-> SumColumn(unit_data, <<"channel_stats", "subscriber_count">>),
         video_count |-> SumColumn(unit_data, <<"channel_stats", "video_count">>),
         view_count |-> SumColumn(unit_data, <<"channel_stats", "view_count">>),
         total_video_duration |->
             SumColumn(unit_data, <<"video_attributes", "video_duration_(sum)">>),
         total_live_stream_duration |->
             SumColumn(unit_data, <<"video_attributes", "live_stream_duration_(sum)">>)]

\* the loops over the groups, the branches and the units, from entry i on
RECURSIVE UnitSummariesFrom(_, _)
UnitSummariesFrom(merged_data, i) ==
    IF i > Len(GROUPS_BRANCHES_UNITS) THEN <<>>
    ELSE LET entry == GROUPS_BRANCHES_UNITS[i]
         IN  [j \in 1..Len(entry.units) |->
                 UnitSummary(merged_data, entry.group, entry.branch, entry.units[j])]
             \o UnitSummariesFrom(merged_data, i + 1)

\* summarize_by_unit, up to channel_data['data']
summarize_by_unit(member_data_, member_channel_data_) ==
    LET member_data_multilevel == convert_to_multilevel(member_data_, "member_data")
        channel_stats_multilevel ==
            convert_to_multilevel(member_channel_data_.channel_stats, "channel_stats")
        with_stats == MergeOn(member_data_multilevel, channel_stats_multilevel,
                              <<"member_data", "youtube_channel_id">>,
                              <<"channel_stats", "channel_id">>)
        merged_data == MergeOn(with_stats, member_channel_data_.channel_video_summary,
                               <<"member_data", "name">>, <<"member_data", "name">>)
    IN  DataFrame(UNIT_COLUMNS, UnitSummariesFrom(merged_data, 1))

-----------------------------------------------------------------------------
(* utils/setup.py and utils/importing.py: request_session *)

\* request_session is not called, or has returned
NoRequest ==
    [pc |-> "none", session_open |-> FALSE, session_dir_paths |-> <<>>,
     entered |-> <<>>, session_name |-> None]

DigitValue(c) ==
    CASE c = "0" -> 0 [] c = "1" -> 1 [] c = "2" -> 2 [] c = "3" -> 3 [] c = "4" -> 4
      [] c = "5" -> 5 [] c = "6" -> 6 [] c = "7" -> 7 [] c = "8" -> 8 [] c = "9" -> 9

\* str.strip(): the text without the spaces at its ends; a text is the
\* sequence of its characters
RECURSIVE Strip(_)
Strip(text) ==
    IF text = <<>> THEN <<>>
    ELSE IF Head(text) = " " THEN Strip(Tail(text))
    ELSE IF text[Len(text)] = " " THEN Strip(SubSeq(text, 1, Len(text) - 1))
    ELSE text

\* the digits of an integer literal: digits, with single underscores between
IsNumeral(body) ==
    /\ body # <<>>
    /\ \A i \in 1..Len(body) :
          \/ body[i] \in Digits
          \/ /\ body[i] = "_"
             /\ 1 < i /\ i < Len(body)
             /\ body[i - 1] \in Digits /\ body[i + 1] \in Digits

RECURSIVE NumeralValue(_, _)
NumeralValue(body, sofar) ==
    IF body = <<>> THEN sofar
    ELSE IF Head(body) = "_" THEN NumeralValue(Tail(body), sofar)
    ELSE NumeralValue(Tail(body), 10 * sofar + DigitValue(Head(body)))

\* int(text): the integer the text denotes, or ValueError
int(text) ==
    LET stripped == Strip(text)
        signed == stripped # <<>> /\ Head(stripped) \in {"+", "-"}
        body == IF signed THEN Tail(stripped) ELSE stripped
    IN  IF IsNumeral(body)
        THEN [error |-> "none",
              value |-> IF signed /\ Head(stripped) = "-" THEN 0 - NumeralValue(body, 0)
                        ELSE NumeralValue(body, 0)]
        ELSE [error |-> "ValueError", value |-> 0]

\* 0 <= session_number <= max_index, with the bounds exchanged
InRangeAboveZero(session_number, max_index) ==
    0 < session_number /\ session_number <= max_index

\* 0 <= session_number <= max_index
InRange(session_number, max_index) ==
    0 <= session_number /\ session_number <= max_index

\* list(YT_DAPI_SESSIONS_PATH.iterdir()): the entries of the directory of the
\* sessions, in any order
Listings(fs) ==
    LET entries == {path \in fs.directories \cup fs.files : Len(path) = 1}
        n == Cardinality(entries)
    IN  {[i \in 1..n |-> listing[i][1]] :
            listing \in {l \in [1..n -> entries] : \A i, j \in 1..n : l[i] = l[j] => i = j}}

\* one pass of the while loop of request_session on the text entered
request_session(request, text) ==
    LET max_index == Len(request.session_dir_paths) - 1
        session_number == int(text)
    IN  IF session_number.error = "none" /\ InRange(session_number.value, max_index)
        THEN [request EXCEPT !.pc = "returned", !.entered = text,
                             !.session_name =
                                 request.session_dir_paths[session_number.value + 1]]
        ELSE [request EXCEPT !.pc = "invalid", !.entered = text]

\* open_session(session_name)
open_session(session_name) == <<session_name>>

-----------------------------------------------------------------------------
(* utils/importing.py: the files of a session read again *)

VIDEO_DATA_TYPES ==
    <<"video_attributes", "video_stats", "content_types", "video_title_keywords",
      "video_types">>

CHANNEL_DATA_TYPES ==
    <<"channel_stats", "channel_thumbnail_urls", "channel_titles", "uploads_playlist_ids",
      "channel_video_summary", "unit_summary">>

\* the characters of the dates, the times and the names the file names are made of
Characters(text) ==
    CASE text = "2022-06-01" ->
           <<"2", "0", "2", "2", "-", "0", "6", "-", "0", "1">>
      [] text = "2022-06-02" ->
           <<"2", "0", "2", "2", "-", "0", "6", "-", "0", "2">>
      [] text = "23" ->
           <<"2", "3">>
      [] text = "00" ->
           <<"0", "0">>
      [] text = "58" ->
           <<"5", "8">>
      [] text = "59" ->
           <<"5", "9">>
      [] text = "video_attributes" ->
           <<"v", "i", "d", "e", "o", "_", "a", "t", "t", "r", "i", "b", "u", "t", "e", "s">>
      [] text = "video_stats" ->
           <<"v", "i", "d", "e", "o", "_", "s", "t", "a", "t", "s">>
      [] text = "content_types" ->
           <<"c", "o", "n", "t", "e", "n", "t", "_", "t", "y", "p", "e", "s">>
      [] text = "video_title_keywords" ->
           <<"v", "i", "d", "e", "o", "_", "t", "i", "t", "l", "e", "_", "k", "e", "y", "w", "o", "r", "d", "s">>
      [] text = "video_types" ->
           <<"v", "i", "d", "e", "o", "_", "t", "y", "p", "e", "s">>
      [] text = "channel_stats" ->
           <<"c", "h", "a", "n", "n", "e", "l", "_", "s", "t", "a", "t", "s">>
      [] text = "channel_thumbnail_urls" ->
           <<"c", "h", "a", "n", "n", "e", "l", "_", "t", "h", "u", "m", "b", "n", "a", "i", "l", "_", "u", "r", "l", "s">>
      [] text = "channel_titles" ->
           <<"c", "h", "a", "n", "n", "e", "l", "_", "t", "i", "t", "l", "e", "s">>
      [] text = "uploads_playlist_ids" ->
           <<"u", "p", "l", "o", "a", "d", "s", "_", "p", "l", "a", "y", "l", "i", "s", "t", "_", "i", "d", "s">>
      [] text = "channel_video_summary" ->
           <<"c", "h", "a", "n", "n", "e", "l", "_", "v", "i", "d", "e", "o", "_", "s", "u", "m", "m", "a", "r", "y">>
      [] text = "unit_summary" ->
           <<"u", "n", "i", "t", "_", "s", "u", "m", "m", "a", "r", "y">>
      [] text = "tokino_sora" ->
           <<"t", "o", "k", "i", "n", "o", "_", "s", "o", "r", "a">>
      [] text = "roboco" ->
           <<"r", "o", "b", "o", "c", "o">>

\* the text of a sequence of characters
RECURSIVE Text(_)
Text(chars) == IF chars = <<>> THEN "" ELSE Head(chars) \o Text(Tail(chars))

\* the stems of the files of a session, as characters: the name of a data
\* type, for video data after the name of the member, without or with the
\* timestamp of an instant
FileStems ==
    LET names == {Characters(type) : type \in Range(CHANNEL_DATA_TYPES)}
                 \cup {Characters(member) \o <<"_">> \o Characters(type) :
                          member \in {"tokino_sora", "roboco"},
                          type \in Range(VIDEO_DATA_TYPES)}
        stamps == {Characters(now.date) \o <<"-">> \o Characters(now.hour)
                   \o Characters(now.minute) \o <<"_">> : now \in Range(Instants)}
    IN  names \cup {stamp \o name : stamp \in stamps, name \in names}

\* file_path.stem, as characters
Stem(name) == CHOOSE chars \in FileStems : Text(chars) \o ".csv" = name

\* text[from:to]
Slice(text, from, to) ==
    IF from >= Len(text) THEN <<>>
    ELSE SubSeq(text, from + 1, IF to < Len(text) THEN to ELSE Len(text))

\* part in text
Contains(text, part) ==
    \E i \in 0..(Len(text) - Len(part)) : Slice(text, i, i + Len(part)) = part

\* datetime(year, month, day, hour, minute) accepts the fields
ValidDatetime(year, month, day, hour, minute) ==
    /\ year \in 1..9999
    /\ month \in 1..12
    /\ day \in 1..(CASE month \in {4, 6, 9, 11} -> 30
                     [] month = 2 ->
                            IF year % 4 = 0 /\ (year % 100 # 0 \/ year % 400 = 0) THEN 29
                            ELSE 28
                     [] OTHER -> 31)
    /\ hour \in 0..23
    /\ minute \in 0..59

\* _extract_datetime(file_name): the datetime of the first 15 characters of
\* the stem, or the ValueError of int or of datetime
_extract_datetime(file_name) ==
    LET year == int(Slice(file_name, 0, 4))
        month == int(Slice(file_name, 5, 7))
        day == int(Slice(file_name, 8, 10))
        hour == int(Slice(file_name, 11, 13))
        minute == int(Slice(file_name, 13, 15))
    IN  IF \E field \in {year, month, day, hour, minute} : field.error # "none"
        THEN [error |-> "ValueError"]
        ELSE IF ~ValidDatetime(year.value, month.value, day.value, hour.value,
                               minute.value)
        THEN [error |-> "ValueError"]
        ELSE [error |-> "none", year |-> year.value, month |-> month.value,
              day |-> day.value, hour |-> hour.value, minute |-> minute.value]

\* the type of the values of a column
DType(column) ==
    CASE column \in {"duration", "video_duration_(sum)", "live_stream_duration_(sum)"}
            -> "timedelta"
      [] column \in {"actual_start_time", "actual_end_time", "publish_datetime"}
            -> "datetime"
      [] column = "live_broadcast" -> "bool"
      [] column \in {"title_keywords", "content_types"} -> "set"
      [] column \in {"subscriber_count", "video_count", "view_count", "like_count",
                     "comment_count"} -> "int"
      [] OTHER -> "str"

\* the null of a column, the column of a table of two levels being a pair
NullOfColumn(column, levels) ==
    IF levels = 2
    THEN (IF DType(column[2]) = "str" THEN "nan" ELSE NaT)
    ELSE IF column \in {"video_id", "title", "video_type", "title_keywords", "content_types"}
    THEN NullOf(column)
    ELSE IF DType(column) = "str" THEN "nan"
    ELSE NaT

\* the lowest name of a column
ColumnName(column, levels) == IF levels = 2 THEN column[2] ELSE column

\* the cell to_csv writes for a value: nothing for a null, the digits of an
\* integer, True or False, and otherwise the text str(value) of the value
CsvCell(dtype, value, null) ==
    IF dtype = "bool" THEN [form |-> "bool", value |-> value]
    ELSE IF value = null THEN [form |-> "empty"]
    ELSE IF dtype = "int" THEN [form |-> "number", value |-> value]
    ELSE [form |-> "text", of |-> dtype, value |-> value]

\* dataframe.to_csv(full_path, index=False): the header lines, one per level
\* of the columns, and one line per row
to_csv(dataframe, levels) ==
    [levels |-> levels,
     header |-> dataframe.columns,
     lines |-> [i \in 1..Len(dataframe.rows) |->
                   [column \in Range(dataframe.columns) |->
                       CsvCell(DType(ColumnName(column, levels)),
                               dataframe.rows[i][column],
                               NullOfColumn(column, levels))]]]

\* the value read_csv gives for a cell: NaN for nothing, the number, the
\* Boolean, and otherwise the text of the cell as a str; the text written for
\* a str is the str, the text written for another value is its str(value)
ReadCell(cell) ==
    IF cell.form = "empty" THEN [dtype |-> "float", value |-> "NaN"]
    ELSE IF cell.form = "number" THEN [dtype |-> "int", value |-> cell.value]
    ELSE IF cell.form = "bool" THEN [dtype |-> "bool", value |-> cell.value]
    ELSE IF cell.of = "str" THEN [dtype |-> "str", value |-> cell.value]
    ELSE [dtype |-> "str", value |-> [str |-> cell.of, of |-> cell.value]]

\* pd.read_csv(file_path, header=headers) of a file whose header lines are
\* the headers: the tables written under a data type have the levels read
\* for that type
read_csv(content) ==
    DataFrame(content.header,
              [i \in 1..Len(content.lines) |->
                  [column \in Range(content.header) |->
                      ReadCell(content.lines[i][column])]])

\* an empty dictionary: no file of the data type
NoData == [found |-> FALSE, error |-> "none"]

\* what the loop over the file paths gives from file i on: the first file
\* whose name holds the text sought
RECURSIVE FirstFile(_, _, _, _)
FirstFile(csv, file_paths, sought, i) ==
    IF i > Len(file_paths) THEN NoData
    ELSE LET file_path == file_paths[i]
             stem == Stem(file_path[Len(file_path)])
         IN  IF Contains(stem \o <<".", "c", "s", "v">>, sought)
             THEN LET file_datetime == _extract_datetime(stem)
                  IN  IF file_datetime.error # "none"
                      THEN [found |-> FALSE, error |-> file_datetime.error]
                      ELSE [found |-> TRUE, error |-> "none",
                            data |-> read_csv(csv[file_path]),
                            datetime |-> file_datetime,
                            file_path |-> file_path]
             ELSE FirstFile(csv, file_paths, sought, i + 1)

\* _get_channel_data(file_paths, channel_data_type)
_get_channel_data(csv, file_paths, channel_data_type) ==
    FirstFile(csv, file_paths, Characters(channel_data_type), 1)

\* _get_video_data(member_name, file_paths, video_data_type)
_get_video_data(csv, member_name, file_paths, video_data_type) ==
    FirstFile(csv, file_paths,
              Characters(Lowered(member_name)) \o <<"_">> \o Characters(video_data_type), 1)

\* list.reverse()
Reverse(list) == [i \in 1..Len(list) |-> list[Len(list) + 1 - i]]

\* list(dir_path.iterdir()): the entries of the directory, in the order of
\* their names or in any other order
Iterdir(fs, dir_path) ==
    LET entries == {path \in fs.directories \cup fs.files :
                       Len(path) = Len(dir_path) + 1
                       /\ SubSeq(path, 1, Len(dir_path)) = dir_path}
        n == Cardinality(entries)
    IN  {listing \in [1..n -> entries] : \A i, j \in 1..n : listing[i] = listing[j] => i = j}

\* _get_member_channel_data for one data type: session_path is
\* session.SESSION_PATH, listing what iterdir gives
_get_member_channel_data(fs, csv, session_path, channel_data_type, listing) ==
    IF session_path = None THEN [found |-> FALSE, error |-> "TypeError"]
    ELSE IF ~Exists(fs, Append(session_path, "Channel"))
    THEN [found |-> FALSE, error |-> "FileNotFoundError"]
    ELSE _get_channel_data(csv, Reverse(listing), channel_data_type)

\* _get_member_video_data for one member and one data type: a member without
\* directory is left out
_get_member_video_data(fs, csv, session_path, member_name, video_data_type, listing) ==
    IF session_path = None THEN [found |-> FALSE, error |-> "TypeError"]
    ELSE IF ~Exists(fs, session_path \o <<"Video", Underscored(member_name)>>) THEN NoData
    ELSE _get_video_data(csv, Underscored(member_name), Reverse(listing), video_data_type)

-----------------------------------------------------------------------------
(* The video attributes tables tried *)

\* response.status_code: 200, the redirects 302 and 303, and the error 404
StatusCodes == {200, 302, 303, 404}

RedirectCodes == {code \in StatusCodes : 300 <= code /\ code < 400}

ATTRIBUTE_COLUMNS ==
    <<"video_id", "title", "duration", "live_broadcast", "actual_start_time",
      "actual_end_time">>

SongName == <<"S", "o", "n", "g", " ", "N", "a", "m", "e", " ">>

TitledVideo(id, title, live, duration, start, end) ==
    [video_id |-> id, title |-> title, duration |-> duration, live_broadcast |-> live,
     actual_start_time |-> start, actual_end_time |-> end]

Video(id, live, duration, start, end) ==
    TitledVideo(id, SongName, live, duration, start, end)

Around(c) == (c - Window)..(c + Window)

Durations ==
    Around(SHORT_MAX_LENGTH) \cup Around(LIVE_STREAM_CUTOFF) \cup Around(PREMIERE_CUTOFF)

Differences ==
    Around(PREMIERE_COUNTDOWN - BOUNDS) \cup Around(PREMIERE_COUNTDOWN + BOUNDS) \cup {0}

\* a live broadcast that ended, one that has not ended and one that never started
LiveVideos(id, durations, differences) ==
    {Video(id, TRUE, d, 0, d + x) : d \in durations, x \in differences}
    \cup {Video(id, TRUE, d, 0, NaT) : d \in durations}
    \cup {Video(id, TRUE, d, NaT, NaT) : d \in durations}

UploadedVideos(id, durations) == {Video(id, FALSE, d, NaT, NaT) : d \in durations}

\* every combination around the thresholds, for one video
AllVideos(id) == LiveVideos(id, Durations, Differences) \cup UploadedVideos(id, Durations)

\* one video of each kind of outcome, for the tables of two videos
SomeVideos(id) ==
    LiveVideos(id, {LIVE_STREAM_CUTOFF, LIVE_STREAM_CUTOFF + 1}, {0, PREMIERE_COUNTDOWN})
    \cup UploadedVideos(id, {SHORT_MAX_LENGTH, SHORT_MAX_LENGTH + 1})

Tables ==
    {DataFrame(ATTRIBUTE_COLUMNS, <<v>>) : v \in AllVideos("v1")}
    \cup {DataFrame(ATTRIBUTE_COLUMNS, <<v, w>>) :
            v \in SomeVideos("v1"), w \in SomeVideos("v2")}

IdsOf(df) == {df.rows[i]["video_id"] : i \in 1..Len(df.rows)}

-----------------------------------------------------------------------------
(* The titles and keyword banks tried *)

\* number of segments a title is made of
MaxSegments == 3

OfficialMv == <<"U3010", "o", "f", "f", "i", "c", "i", "a", "l", " ", "m", "v", "U3011">>

HashDebut == <<"#", "D", "e", "b", "u", "t">>

Cover == <<"(", "C", "o", "v", "e", "r", ")">>

Koushiki == <<"U516C", "U5F0F", " ">>

Asmr == <<"A", "S", "M", "R", " ">>

\* an opener and a closer on their own, for spans that hold other brackets
Opener == <<"U3010">>

Closer == <<"U3011">>

\* a round bracket that is never closed
Round == <<"(", "C", "o", "v", "e", "r">>

Segments == {OfficialMv, SongName, HashDebut, Cover, Koushiki, Asmr, Opener, Closer, Round}

RECURSIVE TitlesOf(_)
TitlesOf(n) ==
    IF n = 0 THEN {<<>>}
    ELSE TitlesOf(n - 1) \cup {t \o s : t \in TitlesOf(n - 1), s \in Segments}

Titles == TitlesOf(MaxSegments)

Keyword(category, keywords) == [category |-> category, keywords |-> keywords]

\* an English bank whose only keyword is 'Official'
OfficialBanks ==
    << [language |-> "English",
        bank |-> <<Keyword("Music Video", << <<"O", "f", "f", "i", "c", "i", "a", "l">> >>)>>] >>

\* an English and a Japanese bank; 'Cover' is a keyword of two content types
TwoBanks ==
    << [language |-> "English",
        bank |-> << Keyword("Music Video", << <<"O", "f", "f", "i", "c", "i", "a", "l">>,
                                              <<"m", "v">>,
                                              <<"C", "o", "v", "e", "r">> >>),
                    Keyword("Karaoke", << <<"C", "o", "v", "e", "r">>,
                                          <<"S", "o", "n", "g">> >>),
                    Keyword("Other Content", << <<"A", "S", "M", "R">> >>),
                    Keyword("Debut", << <<"D", "e", "b", "u", "t">> >>) >>],
       [language |-> "Japanese",
        bank |-> << Keyword("Chatting", << <<"U96D1", "U8AC7">> >>),
                    Keyword("Music Video", << <<"U516C", "U5F0F">> >>) >>] >>

\* banks of none of the three languages
NoBanks == <<>>

\* an English bank whose category has no keyword, and a bank of another language
EmptyBanks ==
    << [language |-> "English", bank |-> <<Keyword("Music Video", <<>>)>>],
       [language |-> "Korean", bank |-> <<Keyword("Music Video", << <<"m", "v">> >>)>>] >>

KeywordBanks == {OfficialBanks, TwoBanks, NoBanks, EmptyBanks}

TitledTables ==
    {DataFrame(ATTRIBUTE_COLUMNS,
               <<TitledVideo("v1", t, FALSE, SHORT_MAX_LENGTH + 1, NaT, NaT)>>) :
        t \in Titles}

\* tables of one or two videos
SmallTables ==
    LET Kinds(id) == LiveVideos(id, {LIVE_STREAM_CUTOFF + 1}, {0, PREMIERE_COUNTDOWN})
                     \cup UploadedVideos(id, {SHORT_MAX_LENGTH, SHORT_MAX_LENGTH + 1})
    IN  {DataFrame(ATTRIBUTE_COLUMNS, <<v>>) : v \in Kinds("v1")}
        \cup {DataFrame(ATTRIBUTE_COLUMNS, <<v, w>>) :
                v \in Kinds("v1"), w \in Kinds("v2")}

IdSeq(df) == [i \in 1..Len(df.rows) |-> df.rows[i]["video_id"]]

-----------------------------------------------------------------------------
(* The operations on the video data of one member *)

\* the member whose video data is prepared
MemberName == "Tokino Sora"

\* error is the exception the last operation raised
IsLiveStream ==
    /\ error # "MergeError"
    /\ DOMAIN summary = {}
    /\ Len(applied) < MaxApplications
    /\ applied' = Append(applied, "is_live_stream")
    /\ IF is_live_stream_raises(video_attributes)
       THEN error' = "MergeError" /\ UNCHANGED video_attributes
       ELSE error' = "none" /\ video_attributes' = is_live_stream(video_attributes)
    /\ UNCHANGED <<responses, summary, keywordsVars, input_ids, utilVars, session_request, sessionVars, collectVars>>

IsShort ==
    /\ error # "MergeError"
    /\ error' = "none"
    /\ DOMAIN summary = {}
    /\ Len(applied) < MaxApplications
    /\ applied' = Append(applied, "is_short")
    /\ \E codes \in [IdsOf(video_attributes) -> StatusCodes] :
          /\ responses' = [id \in ProbedIds(video_attributes) |-> codes[id]]
          /\ video_attributes' = is_short(video_attributes, codes)
    /\ UNCHANGED <<summary, keywordsVars, input_ids, utilVars, session_request, sessionVars, collectVars>>

SummarizeVideoTypes ==
    /\ error # "MergeError"
    /\ error' = "none"
    /\ DOMAIN summary = {}
    /\ HasColumn(video_attributes, "video_type")
    /\ summary' = summarize_video_types(video_types_table(video_attributes))
    /\ UNCHANGED <<video_attributes, applied, responses, keywordsVars, input_ids, utilVars, session_request, sessionVars, collectVars>>

\* extract_title_keywords that, when the data holds its output, takes the
\* titles from that output: the keywords of the keywords
ExtractTitleKeywordsOfOutput ==
    /\ error # "MergeError"
    /\ extractions < MaxExtractions
    /\ extractions' = extractions + 1
    /\ LET search_keywords == SearchKeywords(keyword_banks)
           titled == IF video_title_keywords = NoTable THEN video_attributes
                     ELSE SetColumn(video_title_keywords, "title",
                                    LAMBDA r : IF r["title_keywords"] = {} THEN <<>>
                                               ELSE CHOOSE k \in r["title_keywords"] : TRUE)
       IN  IF NoSearchKeyword(search_keywords)
           THEN /\ error' = "ValueError"
                /\ UNCHANGED <<video_title_keywords, directories, files, SESSION_PATH, created>>
           ELSE \E exported \in {export_video_data(Fs, MemberName, "True",
                                                  StrTimestamp("video_title_keywords"),
                                                  TRUE, Now)} :
                    /\ video_title_keywords' =
                           _extract_member_keywords(titled, search_keywords)
                    /\ Leaves(exported)
                    /\ error' = exported.error
    /\ UNCHANGED <<typesVars, keyword_banks, content_types, content_summary, input_ids,
                   splitVars, csv_files, imported, session_request, session_SESSION_PATH,
                   clock, collectVars>>

\* extract_title_keywords, for the one member. The export that ends
\* _extract_member_keywords is given export_data as the file name and the file
\* name as the timestamp, whatever export_data is, and raises; the table built
\* before it is kept here, as the table classify_content_type is given.
ExtractTitleKeywords ==
    /\ error # "MergeError"
    /\ extractions < MaxExtractions
    /\ extractions' = extractions + 1
    /\ LET search_keywords == SearchKeywords(keyword_banks)
       IN  IF NoSearchKeyword(search_keywords)
           THEN /\ error' = "ValueError"
                /\ UNCHANGED <<video_title_keywords, directories, files, SESSION_PATH, created>>
           ELSE \E exported \in {export_video_data(Fs, MemberName, "True",
                                                  StrTimestamp("video_title_keywords"),
                                                  TRUE, Now)} :
                    /\ video_title_keywords' =
                           _extract_member_keywords(video_attributes, search_keywords)
                    /\ Leaves(exported)
                    /\ error' = exported.error
    /\ UNCHANGED <<typesVars, keyword_banks, content_types, content_summary, input_ids,
                   splitVars, csv_files, imported, session_request, session_SESSION_PATH,
                   clock, collectVars>>

\* classify_content_type, for the one member: with export_data the export of
\* the table raises and the table is not returned
ClassifyContentType ==
    /\ error \notin {"MergeError", "ValueError"}
    /\ video_title_keywords # NoTable
    /\ \E export_data \in BOOLEAN :
          LET data == _classify_member_videos(video_title_keywords,
                                              combine_keyword_banks(keyword_banks))
              exported == IF export_data
                          THEN export_video_data(Fs, MemberName, "content_types",
                                                 DatetimeOf(Now), TRUE, Now)
                          ELSE Fs
          IN  /\ Leaves(exported)
              /\ error' = exported.error
              /\ content_types' = IF exported.error = "none" THEN data ELSE content_types
    /\ UNCHANGED <<typesVars, keyword_banks, video_title_keywords,
                   content_summary, input_ids, utilVars, session_request, session_SESSION_PATH, clock, collectVars>>

\* summarize_content_types, for the one member
SummarizeContentTypes ==
    /\ error \notin {"MergeError", "ValueError"}
    /\ content_types # NoTable
    /\ DOMAIN content_summary = {}
    /\ content_summary' = summarize_content_types(content_types)
    /\ error' = "none"
    /\ UNCHANGED <<typesVars, keyword_banks, video_title_keywords,
                   content_types, input_ids, utilVars, session_request, sessionVars, collectVars>>

(* The operations on the sessions *)

\* scripts/collect_youtube_data.py: session.SESSION_PATH = exporting.create_session()
CreateSession ==
    /\ Len(created) < MaxSessions
    /\ \E made \in {create_session(Fs, Now)} :
           /\ Leaves(made)
           /\ error' = made.error
           /\ session_SESSION_PATH' =
                  IF made.error = "none" THEN made.SESSION_PATH ELSE session_SESSION_PATH
    /\ UNCHANGED <<typesVars, keywordsVars, input_ids, utilVars, session_request, clock, collectVars>>

\* time passes
Tick ==
    /\ clock < Len(Instants)
    /\ clock' = clock + 1
    /\ UNCHANGED <<prepareVars, directories, files, SESSION_PATH, session_SESSION_PATH,
                   created, collectVars, utilVars>>

(* The operations that collect data *)

\* the members of the starting data
MEMBERS == <<"Tokino Sora", "Roboco">>

ChannelId(k) == "channel-" \o ToString(k)

UploadsId(k) == "uploads-" \o ToString(k)

VideoId(k, j) == "video-" \o ToString(k) \o "-" \o ToString(j)

\* holopro_members.csv: the starting data
StartingRow(k, group, branch, unit, unit2) ==
    [name |-> MEMBERS[k], youtube_channel_id |-> ChannelId(k), group |-> group,
     branch |-> branch, unit |-> unit, unit2 |-> unit2]

STARTING_COLUMNS == <<"name", "group", "branch", "unit", "unit2", "youtube_channel_id">>

StartingData ==
    DataFrame(STARTING_COLUMNS,
              [k \in 1..Len(MEMBERS) |->
                  StartingRow(k, "Hololive", "Japan", "0th Generation", <<"nan">>)])

\* the channel resource of member k
Channel(k) ==
    [id |-> ChannelId(k), title |-> MEMBERS[k], subscriberCount |-> k, videoCount |-> k,
     viewCount |-> k, thumbnails |-> <<"default", "medium", "high">>,
     uploads |-> UploadsId(k)]

\* the video resource of an id: an upload with every statistic
VideoResource(id, statistics) ==
    [id |-> id, title |-> SongName, publishedAt |-> 0, duration |-> SHORT_MAX_LENGTH + 1,
     categoryId |-> "10", live_broadcast |-> FALSE, liveStreamingDetails |-> <<>>,
     statistics |-> statistics]

AllStatistics == [key \in {"viewCount", "likeCount", "commentCount"} |-> 0]

\* the uploads playlist of member k with n videos, one per page
Playlist(k, n) == [j \in 1..n |-> <<[videoId |-> VideoId(k, j), publishedAt |-> 0]>>]

\* what the API may hold: per member a playlist of 0 to MaxPages pages
YouTubes ==
    {[channels |-> [id \in {ChannelId(k) : k \in 1..Len(MEMBERS)} |->
                       Channel(CHOOSE k \in 1..Len(MEMBERS) : ChannelId(k) = id)],
      playlists |-> [id \in {UploadsId(k) : k \in 1..Len(MEMBERS)} |->
                        Playlist(CHOOSE k \in 1..Len(MEMBERS) : UploadsId(k) = id,
                                 pages[CHOOSE k \in 1..Len(MEMBERS) : UploadsId(k) = id])],
      videos |-> [id \in {VideoId(k, j) : k \in 1..Len(MEMBERS), j \in 1..MaxPages} |->
                     VideoResource(id, AllStatistics)]] :
        pages \in [1..Len(MEMBERS) -> 0..MaxPages]}

\* the exceptions of request.execute(): the API answers with an error status,
\* or the connection fails
Failures == {"HttpError", "ConnectionError"}

NoFailure == [at |-> 0, kind |-> "ok"]

\* no request fails, or one of the first n does
Schedules(n) == {NoFailure} \cup {[at |-> i, kind |-> k] : i \in 1..n, k \in Failures}

ChannelIds == [k \in 1..Len(MEMBERS) |-> ChannelId(k)]

\* the rows of a table for the members of the set, in the order of MEMBERS
RowsFor(members, Row(_)) ==
    LET Of(k) == IF k \in members THEN <<Row(k)>> ELSE <<>>
    IN  FlatMapRows([k \in 1..Len(MEMBERS) |-> k], Of, 1)

\* the channel stats of member k
ChannelStatsRow(k) ==
    [channel_id |-> ChannelId(k), subscriber_count |-> 1000 * k, video_count |-> 10 * k,
     view_count |-> 100000 * k]

\* the row of member k in the channel video summary: the durations in seconds
ChannelVideoSummaryRow(k) ==
    (<<"member_data", "name">> :> MEMBERS[k])
    @@ (<<"video_attributes", "video_duration_(sum)">> :> 3600 * k)
    @@ (<<"video_attributes", "live_stream_duration_(sum)">> :> 60 * k)

\* the one table of video attributes the session operations keep
OneTable == DataFrame(ATTRIBUTE_COLUMNS, <<Video("v1", FALSE, SHORT_MAX_LENGTH + 1, NaT, NaT)>>)

\* the channel stats of the members of the set
ChannelStatsTable(members) ==
    DataFrame(<<"channel_id", "subscriber_count", "video_count", "view_count">>,
              RowsFor(members, ChannelStatsRow))

\* the channel video summary of the members of the set
ChannelVideoSummaryTable(members) ==
    DataFrame(<< <<"member_data", "name">>,
                 <<"video_attributes", "video_duration_(sum)">>,
                 <<"video_attributes", "live_stream_duration_(sum)">> >>,
              RowsFor(members, ChannelVideoSummaryRow))

\* the video attributes of an upload and of a live stream
AttributesTable ==
    DataFrame(ATTRIBUTE_COLUMNS,
              <<Video("v1", FALSE, SHORT_MAX_LENGTH + 1, NaT, NaT),
                Video("v2", TRUE, PREMIERE_CUTOFF + 1, 0, PREMIERE_CUTOFF + 1)>>)

\* the title keywords of a video titled with a bracketed keyword
KeywordsTable ==
    _extract_member_keywords(
        DataFrame(ATTRIBUTE_COLUMNS,
                  <<TitledVideo("v1", OfficialMv \o SongName, FALSE, SHORT_MAX_LENGTH + 1,
                                NaT, NaT)>>),
        SearchKeywords(OfficialBanks))

\* the tables exported under a file name
ExportedTables(filename) ==
    CASE filename = "channel_stats" -> {ChannelStatsTable({1}), ChannelStatsTable({1, 2})}
      [] filename = "channel_video_summary" -> {ChannelVideoSummaryTable({1, 2})}
      [] filename = "video_attributes" -> {OneTable, AttributesTable}
      [] filename = "video_title_keywords" -> {KeywordsTable}

\* the levels of the columns of the table exported under a file name
Levels(filename) == IF filename = "channel_video_summary" THEN 2 ELSE 1

\* the files after an export of data: the file written holds the data
Stored(fs, data, levels) ==
    [path \in fs.files |->
        IF fs.error = "none" /\ path = fs.written THEN to_csv(data, levels)
        ELSE csv_files[path]]

\* a call of export_channel_data
ExportChannelData ==
    /\ Cardinality(files) < MaxFiles
    /\ \E filename \in {"channel_stats", "channel_video_summary"},
          timestamp \in {NoTimestamp, DatetimeOf(Now)} :
          \E data \in ExportedTables(filename) :
              \E exported \in {export_channel_data(Fs, filename, timestamp, TRUE, Now)} :
                  /\ Leaves(exported)
                  /\ error' = exported.error
                  /\ csv_files' = Stored(exported, data, Levels(filename))
    /\ operation' = "export_channel_data"
    /\ UNCHANGED <<typesVars, keywordsVars, input_ids, splitVars, imported, extractions,
                   session_request,
                   session_SESSION_PATH, clock, youtube, requests, api_responses,
                   member_channel_data, member_video_data, video_stats, member_data>>

\* a call of export_video_data, for the first member
ExportVideoData ==
    /\ Cardinality(files) < MaxFiles
    /\ \E member_name \in {MEMBERS[1]},
          filename \in {"video_attributes", "video_title_keywords"},
          timestamp \in {NoTimestamp, DatetimeOf(Now)}, auto_timestamp \in BOOLEAN :
          \E data \in ExportedTables(filename) :
              \E exported \in {export_video_data(Fs, member_name, filename, timestamp,
                                                 auto_timestamp, Now)} :
                  /\ Leaves(exported)
                  /\ error' = exported.error
                  /\ csv_files' = Stored(exported, data, Levels(filename))
    /\ operation' = "export_video_data"
    /\ UNCHANGED <<typesVars, keywordsVars, input_ids, splitVars, imported, extractions,
                   session_request,
                   session_SESSION_PATH, clock, youtube, requests, api_responses,
                   member_channel_data, member_video_data, video_stats, member_data>>

\* the listings iterdir may give of the directory, or of none
ListingsOf(dir_path) ==
    IF session_SESSION_PATH = None THEN {<<>>}
    ELSE Iterdir(Fs, session_SESSION_PATH \o dir_path)

\* importing.import_channel_data(channel_data_type)
ImportChannelData ==
    /\ \E channel_data_type \in {"channel_stats", "channel_video_summary"},
          listing \in ListingsOf(<<"Channel">>) :
          \E got \in {_get_member_channel_data(Fs, csv_files, session_SESSION_PATH,
                                               channel_data_type, listing)} :
              /\ imported' = [asked |-> channel_data_type, member_name |-> "none",
                              got |-> got]
              /\ error' = got.error
    /\ operation' = "import_channel_data"
    /\ UNCHANGED <<typesVars, keywordsVars, input_ids, splitVars, csv_files, extractions,
                   session_request,
                   sessionVars, youtube, requests, api_responses, member_channel_data,
                   member_video_data, video_stats, member_data>>

\* importing.import_video_data(member_name, video_data_type)
ImportVideoData ==
    /\ \E member_name \in Range(MEMBERS),
          video_data_type \in {"video_attributes", "video_title_keywords"} :
          \E listing \in ListingsOf(<<"Video", Underscored(member_name)>>) :
              \E got \in {_get_member_video_data(Fs, csv_files, session_SESSION_PATH,
                                                 member_name, video_data_type, listing)} :
                  /\ imported' = [asked |-> video_data_type, member_name |-> member_name,
                                  got |-> got]
                  /\ error' = got.error
    /\ operation' = "import_video_data"
    /\ UNCHANGED <<typesVars, keywordsVars, input_ids, splitVars, csv_files, extractions,
                   session_request,
                   sessionVars, youtube, requests, api_responses, member_channel_data,
                   member_video_data, video_stats, member_data>>

\* channels.get_channel_data(client, starting_data.youtube_channel_id)
GetChannelData ==
    /\ Cardinality(directories) < MaxDirectories
    /\ \E export_data \in BOOLEAN, schedule \in Schedules(Ceil(Len(MEMBERS), MaxResults)) :
          \E got \in {get_channel_data(Fs, session_SESSION_PATH, youtube.channels, ChannelIds,
                                      MaxResults, export_data, schedule, Now)} :
              /\ Leaves(got.fs)
              /\ error' = got.error
              /\ requests' = got.requests
              /\ member_channel_data' = got.data
    /\ operation' = "get_channel_data"
    /\ UNCHANGED <<typesVars, keywordsVars, input_ids, utilVars, session_request, session_SESSION_PATH, clock,
                   youtube, api_responses, member_video_data, video_stats, member_data>>

\* the failures of the requests of one run over the members: the requests of
\* at most one member fail
MemberSchedules ==
    {schedules \in [1..Len(MEMBERS) ->
                       [playlist : Schedules(MaxPages), video : Schedules(1)]] :
        \A i, j \in 1..Len(MEMBERS) :
            \/ i = j
            \/ schedules[i] = [playlist |-> NoFailure, video |-> NoFailure]
            \/ schedules[j] = [playlist |-> NoFailure, video |-> NoFailure]}

\* videos.get_video_data(client, starting_data, channel_data['uploads_playlist_ids']['data'])
GetVideoData ==
    /\ member_channel_data # None
    /\ \E export_data \in BOOLEAN, schedules \in MemberSchedules :
          \E got \in {get_video_data(Fs, member_data,
                                    member_channel_data.uploads_playlist_ids, youtube,
                                    MaxResults, export_data, schedules, Now)} :
              /\ Leaves(got.fs)
              /\ error' = got.error
              /\ requests' = got.requests
              /\ member_video_data' = got.data
    /\ operation' = "get_video_data"
    /\ UNCHANGED <<typesVars, keywordsVars, input_ids, utilVars, session_request, session_SESSION_PATH, clock,
                   youtube, api_responses, member_channel_data, video_stats, member_data>>

\* youtube_api.request_data(client, resource_type, ids, max_results): the
\* uploads playlist of a member, the channels of the members, or the videos
\* of a member
RequestData ==
    /\ \/ \E k \in 1..Len(MEMBERS), schedule \in Schedules(MaxPages) :
             \E requested \in {request_data(youtube.playlists[UploadsId(k)], "playlistItems",
                                           UploadsId(k), MaxResults, schedule)} :
                 /\ error' = requested.error
                 /\ requests' = requested.requests
                 /\ api_responses' = requested.responses
       \/ \E schedule \in Schedules(Ceil(Len(MEMBERS), MaxResults)) :
             \E requested \in {request_data(youtube.channels, "channels", ChannelIds,
                                           MaxResults, schedule)} :
                 /\ error' = requested.error
                 /\ requests' = requested.requests
                 /\ api_responses' = requested.responses
       \/ \E k \in 1..Len(MEMBERS), n \in 1..MaxPages,
             schedule \in Schedules(Ceil(MaxPages, MaxResults)) :
             \E requested \in {request_data(youtube.videos, "videos",
                                           [j \in 1..n |-> VideoId(k, j)],
                                           MaxResults, schedule)} :
                 /\ error' = requested.error
                 /\ requests' = requested.requests
                 /\ api_responses' = requested.responses
    /\ operation' = "request_data"
    /\ UNCHANGED <<typesVars, keywordsVars, input_ids, utilVars, session_request, sessionVars, youtube,
                   member_channel_data, member_video_data, video_stats, member_data>>

\* the statistics a video resource may have: each count there or not, zero or not
Statistics ==
    UNION {[keys -> {0, 1}] : keys \in SUBSET {"viewCount", "likeCount", "commentCount"}}

\* the statistics of a video with every count, and of one with none
AllCounted == [key \in {"viewCount", "likeCount", "commentCount"} |-> 1]

NoneCounted == [key \in {} |-> 0]

\* videos.get_video_stats(member_name, video_responses, export_data), on the
\* one response to a request for one or two videos
GetVideoStats ==
    /\ \E export_data \in BOOLEAN, first \in Statistics,
          second \in {AllCounted, NoneCounted}, n \in 1..2 :
          LET results == SubSeq(<<VideoResource(VideoId(1, 1), first),
                                  VideoResource(VideoId(1, 2), second)>>, 1, n)
              got == get_video_stats(Fs, MEMBERS[1], <<[items |-> results]>>,
                                     export_data, Now)
          IN  /\ Leaves(got.fs)
              /\ error' = got.error
              /\ video_stats' = IF got.error = "none" THEN got.data ELSE NoTable
              /\ api_responses' = <<[items |-> results]>>
    /\ operation' = "get_video_stats"
    /\ requests' = <<>>
    /\ UNCHANGED <<typesVars, keywordsVars, input_ids, utilVars, session_request,
                   session_SESSION_PATH, clock, youtube, member_channel_data,
                   member_video_data, member_data>>

StartCollect(held) ==
    /\ youtube \in held
    /\ requests = <<>>
    /\ api_responses = <<>>
    /\ member_channel_data = None
    /\ member_video_data = None
    /\ video_stats = NoTable
    /\ member_data = StartingData
    /\ operation = "none"

\* the session directories earlier runs left
EarlierSessions ==
    LET name == Instants[1].date \o "_YT-DAPI_Session"
    IN  { {}, {<<name>>}, {<<name>>, <<name \o "-2">>}, {<<name>>, <<name \o "-3">>},
          {<<name \o "-2">>} }

StartSessions(earlier) ==
    /\ directories \in earlier
    /\ files = {}
    /\ SESSION_PATH = None
    /\ session_SESSION_PATH = None
    /\ clock = 1
    /\ created = <<>>

StartSplit(sequences, sizes) ==
    /\ split_data \in sequences
    /\ split_size \in sizes
    /\ batched_data = <<>>

StartPrepare(tables, banks) ==
    /\ extractions = 0
    /\ video_attributes \in tables
    /\ input_ids = IdSeq(video_attributes)
    /\ applied = <<>>
    /\ responses = [id \in {} |-> HTTP_OK]
    /\ summary = NoSummary
    /\ error = "none"
    /\ keyword_banks \in banks
    /\ session_request = NoRequest
    /\ video_title_keywords = NoTable
    /\ content_types = NoTable
    /\ content_summary = NoSummary

\* no file is held and nothing was imported
StartStore ==
    /\ csv_files = <<>>
    /\ imported = [asked |-> "none"]

Start(tables, banks) ==
    StartPrepare(tables, banks) /\ StartSplit({<<>>}, {MaxResults}) /\ StartStore

(* The video type classification and its summary *)

NoYouTube == CHOOSE held \in YouTubes : \A id \in DOMAIN held.playlists : held.playlists[id] = <<>>

Init == Start(Tables, {OfficialBanks}) /\ StartSessions({{}}) /\ StartCollect({NoYouTube})

Next == IsLiveStream \/ IsShort \/ SummarizeVideoTypes

Spec == Init /\ [][Next]_vars

(* The keyword extraction and the content type classification *)

InitKeywords ==
    Start(TitledTables, KeywordBanks) /\ StartSessions({{}}) /\ StartCollect({NoYouTube})

NextKeywords == ExtractTitleKeywords \/ ClassifyContentType \/ SummarizeContentTypes

SpecKeywords == InitKeywords /\ [][NextKeywords]_vars

(* Every derived table of one member *)

InitPrepare ==
    Start(SmallTables, {TwoBanks}) /\ StartSessions({{}}) /\ StartCollect({NoYouTube})

NextPrepare ==
    \/ IsLiveStream
    \/ IsShort
    \/ SummarizeVideoTypes
    \/ ExtractTitleKeywords
    \/ ClassifyContentType
    \/ SummarizeContentTypes

SpecPrepare == InitPrepare /\ [][NextPrepare]_vars

-----------------------------------------------------------------------------
(* Properties of the video type classification *)

Times(f) == Cardinality({i \in 1..Len(applied) : applied[i] = f})

Rows == Range(video_attributes.rows)

\* is_live_stream was applied once, is_short at most once
LiveStreamsClassified == Times("is_live_stream") = 1 /\ Times("is_short") <= 1

\* is_short was applied once, is_live_stream at most once
ShortsClassified == Times("is_short") = 1 /\ Times("is_live_stream") <= 1

\* (actual_end_time - actual_start_time) - duration of a row, NaT when a time is missing
DifferenceOf(r) ==
    IF r["actual_end_time"] = NaT \/ r["actual_start_time"] = NaT THEN NaT
    ELSE (r["actual_end_time"] - r["actual_start_time"]) - r["duration"]

BetweenCutoffs(r) ==
    /\ r["live_broadcast"]
    /\ 300 < r["duration"]
    /\ r["duration"] < 3601

\* C1 as claimed: between the cutoffs a live broadcast is a Premiere exactly
\* when 105 <= difference <= 135, both bounds inclusive, and a Live Stream
\* otherwise.
C1_InclusiveWindow ==
    LiveStreamsClassified =>
        \A r \in Rows : BetweenCutoffs(r) =>
            IF DifferenceOf(r) # NaT /\ 105 <= DifferenceOf(r) /\ DifferenceOf(r) <= 135
            THEN r["video_type"] = <<"Premiere">>
            ELSE r["video_type"] = <<"Live Stream">>

\* C1 amended: between the cutoffs a live broadcast is a Premiere exactly when
\* 105 < difference < 135, both bounds exclusive (106 and 134 give Premiere,
\* 105 and 135 give Live Stream), and a Live Stream otherwise.
C1_ExclusiveWindow ==
    LiveStreamsClassified =>
        \A r \in Rows : BetweenCutoffs(r) =>
            IF DifferenceOf(r) # NaT /\ 105 < DifferenceOf(r) /\ DifferenceOf(r) < 135
            THEN r["video_type"] = <<"Premiere">>
            ELSE r["video_type"] = <<"Live Stream">>

C1_Witness ==
    /\ LiveStreamsClassified
    /\ \E r \in Rows : /\ BetweenCutoffs(r)
                       /\ DifferenceOf(r) = 105
                       /\ r["video_type"] = <<"Live Stream">>
    
FourTypes == {<<"Normal">>, <<"Short">>, <<"Live Stream">>, <<"Premiere">>}

\* C2: after is_live_stream and is_short have both been applied, every video
\* id has exactly one row and its video_type is one of Normal, Short,
\* Live Stream, Premiere.
C2_ExactlyOneOfFour ==
    (Times("is_live_stream") = 1 /\ Times("is_short") = 1) =>
        /\ \A r \in Rows : r["video_type"] \in FourTypes
        /\ \A i, j \in 1..Len(video_attributes.rows) :
              video_attributes.rows[i]["video_id"] = video_attributes.rows[j]["video_id"]
                  => i = j

\* C3: a video that is no live broadcast and is longer than 60 seconds is
\* Normal after is_short, whatever status a probe of it would be answered
\* with (IsShort tries every status for every video), and no probe is sent
\* for it.
C3_LongVideoIsNormal ==
    ShortsClassified =>
        \A r \in Rows : (~r["live_broadcast"] /\ r["duration"] > 60) =>
            /\ r["video_type"] = <<"Normal">>
            /\ r["video_id"] \notin DOMAIN responses

C3_Witness ==
    /\ ShortsClassified
    /\ \E r \in Rows : /\ ~r["live_broadcast"]
                       /\ r["duration"] = 61
                       /\ r["video_id"] \notin DOMAIN responses
                       /\ r["video_type"] = <<"Normal">>

\* C4: a live broadcast of 1:00:01 or longer is a Live Stream after
\* is_live_stream, also when its difference is inside the Premiere window.
C4_LongBroadcastIsLiveStream ==
    LiveStreamsClassified =>
        \A r \in Rows : (r["live_broadcast"] /\ r["duration"] >= 3601) =>
            r["video_type"] = <<"Live Stream">>

C4_Witness ==
    /\ LiveStreamsClassified
    /\ \E r \in Rows : /\ r["live_broadcast"]
                       /\ r["duration"] = 3601
                       /\ DifferenceOf(r) # NaT
                       /\ 105 < DifferenceOf(r) /\ DifferenceOf(r) < 135
                       /\ r["video_type"] = <<"Live Stream">>

\* C5: a live broadcast shorter than the 5-minute cutoff is a Premiere when
\* its actual start and end times are both known, whatever the difference,
\* and a Live Stream when one of them is missing.
C5_ShortBroadcast ==
    LiveStreamsClassified =>
        \A r \in Rows : (r["live_broadcast"] /\ r["duration"] < 300) =>
            IF r["actual_start_time"] # NaT /\ r["actual_end_time"] # NaT
            THEN r["video_type"] = <<"Premiere">>
            ELSE r["video_type"] = <<"Live Stream">>

C5_Witness ==
    /\ LiveStreamsClassified
    /\ \E r \in Rows : /\ r["live_broadcast"]
                       /\ r["duration"] < 300
                       /\ DifferenceOf(r) = 0
                       /\ r["video_type"] = <<"Premiere">>

Probed(r) == ~r["live_broadcast"] /\ 0 <= r["duration"] /\ r["duration"] <= 60

\* C6 as claimed: for a video that is no live broadcast and at most 60
\* seconds long, status 200 gives Short, a redirect status gives Normal and
\* any other status gives a type that is none of the four labels.
C6_RedirectIsNormal ==
    ShortsClassified =>
        \A r \in Rows : Probed(r) =>
            LET code == responses[r["video_id"]]
            IN  IF code = 200 THEN r["video_type"] = <<"Short">>
                ELSE IF code \in RedirectCodes THEN r["video_type"] = <<"Normal">>
                ELSE r["video_type"] \notin FourTypes

\* C6 amended: status 200 gives Short, status 303 gives Normal, and every
\* other status, the other redirects included, gives a type that is none of
\* the four labels: null when is_short alone was applied, the empty string
\* once combine_same_columns has combined it with the null of is_live_stream.
C6_StatusDecides ==
    ShortsClassified =>
        \A r \in Rows : Probed(r) =>
            LET code == responses[r["video_id"]]
            IN  /\ r["video_id"] \in DOMAIN responses
                /\ IF code = 200 THEN r["video_type"] = <<"Short">>
                   ELSE IF code = 303 THEN r["video_type"] = <<"Normal">>
                   ELSE r["video_type"] =
                           (IF applied = <<"is_short">> THEN NaN ELSE EmptyString)

C6_Witness ==
    /\ ShortsClassified
    /\ \E r \in Rows : /\ Probed(r)
                       /\ responses[r["video_id"]] = 302
                       /\ r["video_type"] = EmptyString

\* C10: the summary of video types has a count for each of Normal, Short,
\* Live Stream and Premiere, and the count of a type without videos is 0.
C10_CountOfEveryType ==
    DOMAIN summary # {} =>
        /\ DOMAIN summary = {"normal_(count)", "short_(count)",
                             "live_stream_(count)", "premiere_(count)"}
        /\ \A t \in {"Normal", "Short", "Live Stream", "Premiere"} :
              /\ summary[CountKey(t)] \in Nat
              /\ (\A r \in Rows : r["video_type"] # <<t>>) => summary[CountKey(t)] = 0
              /\ (\E r \in Rows : r["video_type"] = <<t>>) => summary[CountKey(t)] > 0

C10_Witness ==
    /\ DOMAIN summary # {}
    /\ \A r \in Rows : r["video_type"] # <<"Short">>
    /\ summary["short_(count)"] = 0
    /\ summary["live_stream_(count)"] = 1


-----------------------------------------------------------------------------
(* Properties of the keyword extraction and of the content types *)

\* the title of the scenario: [official mv]Song Name #Debut, in lenticular brackets
ScenarioTitle == OfficialMv \o SongName \o HashDebut

KeywordRows == Range(video_title_keywords.rows)

\* C7 as claimed: with a bank whose keyword is 'Official', the keywords of the
\* scenario title are 'official mv', 'Official' and '#Debut'.
C7_KeywordAsListed ==
    (video_title_keywords # NoTable /\ keyword_banks = OfficialBanks) =>
        \A r \in KeywordRows : r["title"] = ScenarioTitle =>
            r["title_keywords"] =
                { <<"o", "f", "f", "i", "c", "i", "a", "l", " ", "m", "v">>,
                  <<"O", "f", "f", "i", "c", "i", "a", "l">>,
                  <<"#", "D", "e", "b", "u", "t">> }

\* C7 amended: with a bank whose only keyword is 'Official', the keywords of
\* the scenario title are 'official mv', 'official' and '#Debut': the keyword
\* match is returned as the title writes it, in lower case.
C7_KeywordAsWritten ==
    (video_title_keywords # NoTable /\ keyword_banks = OfficialBanks) =>
        \A r \in KeywordRows : r["title"] = ScenarioTitle =>
            r["title_keywords"] =
                { <<"o", "f", "f", "i", "c", "i", "a", "l", " ", "m", "v">>,
                  <<"o", "f", "f", "i", "c", "i", "a", "l">>,
                  <<"#", "D", "e", "b", "u", "t">> }

C7_Witness ==
    /\ video_title_keywords # NoTable
    /\ keyword_banks = OfficialBanks
    /\ \E r \in KeywordRows :
          /\ r["title"] = ScenarioTitle
          /\ <<"o", "f", "f", "i", "c", "i", "a", "l">> \in r["title_keywords"]

\* C8: a content type is in the content types of a video exactly when one of
\* the video's extracted keywords is among the keywords of that content type
\* in the combined bank.
C8_EveryMatchingType ==
    content_types # NoTable =>
        LET keyword_bank == combine_keyword_banks(keyword_banks)
        IN  \A i \in 1..Len(content_types.rows) : \A j \in 1..Len(keyword_bank) :
                keyword_bank[j].category \in content_types.rows[i]["content_types"]
                <=> \E k \in video_title_keywords.rows[i]["title_keywords"] :
                        k \in Range(keyword_bank[j].keywords)

UniqueIds(ids) == \A i, j \in 1..Len(ids) : ids[i] = ids[j] => i = j

\* C9: when the ids of the imported video attributes are unique, the table
\* is_live_stream and is_short return has one row per imported id, in the
\* order imported, and the keyword table and the content type table have
\* the ids of the table they were made from.
C9_SameVideoIds ==
    UniqueIds(input_ids) =>
        /\ IdSeq(video_attributes) = input_ids
        /\ video_title_keywords # NoTable => IdSeq(video_title_keywords) = input_ids
        /\ content_types # NoTable => IdSeq(content_types) = IdSeq(video_title_keywords)

C9_Witness ==
    /\ Len(input_ids) = 2
    /\ Times("is_live_stream") = 1
    /\ Times("is_short") = 1
    /\ \E r \in Rows : r["video_type"] = <<"Premiere">>
    /\ \E r \in Rows : r["video_type"] = <<"Normal">>
    /\ video_title_keywords # NoTable
    /\ content_types # NoTable

-----------------------------------------------------------------------------
(* Properties of the content type summary *)

\* the content types of the combined keyword bank the videos are tagged with
BankCategories == Range(Categories(combine_keyword_banks(keyword_banks)))

\* C11: for every category of the keyword banks used to tag the videos, the
\* summary of summarize_content_types has a count field, equal to the number
\* of videos whose set of content types holds the category
C11_CountOfEveryCategory ==
    DOMAIN content_summary # {} =>
        \A c \in BankCategories :
            /\ ContentCountKey(c) \in DOMAIN content_summary
            /\ content_summary[ContentCountKey(c)] = ContentCounter(content_types, c)

-----------------------------------------------------------------------------
(* The sessions and the exports of channel data *)

InitSessions ==
    Start({OneTable}, {OfficialBanks}) /\ StartSessions(EarlierSessions)
    /\ StartCollect({NoYouTube})

NextSessions == CreateSession \/ Tick \/ ExportChannelData \/ GetChannelData

SpecSessions == InitSessions /\ [][NextSessions]_vars

\* the dated name of a session made now
SessionName == Now.date \o "_YT-DAPI_Session"

\* the name with the first free suffix: -2, -3, ...
FirstFree(name, taken) ==
    LET Suffixed(n) == <<name \o "-" \o ToString(n)>>
        n == CHOOSE k \in 2..(Cardinality(taken) + 2) :
                /\ Suffixed(k) \notin taken
                /\ \A j \in 2..(k - 1) : Suffixed(j) \in taken
    IN  Suffixed(n)

\* C12: no operation removes a directory or a file, and each call of
\* create_session makes and returns a directory that did not exist: the one
\* of the dated name when that name is free, otherwise the one of that name
\* with the first free suffix -2, -3, ...
C12_NewSessionDirectory ==
    [][/\ directories \subseteq directories'
       /\ files \subseteq files'
       /\ CreateSession =>
            LET taken == directories \cup files
                new == IF <<SessionName>> \notin taken THEN <<SessionName>>
                       ELSE FirstFree(SessionName, taken)
            IN  /\ error' = "none"
                /\ new \notin taken
                /\ directories' = directories \cup {new}
                /\ created' = Append(created, new)
                /\ SESSION_PATH' = new
                /\ \A i \in 1..Len(created) : created[i] # new]_vars

\* the third session of a day that had a session before the run
C12_Witness ==
    /\ Len(created) = 2
    /\ created[1] = <<Instants[1].date \o "_YT-DAPI_Session-2">>
    /\ created[2] = <<Instants[1].date \o "_YT-DAPI_Session-3">>

\* the directories of a session root that are not its Video directory
ChannelDirectories(root) ==
    {path \in directories : Len(path) = 2 /\ path[1] = root[1] /\ path[2] # "Video"}

\* the files of a session that are not below its Video directory
ChannelFiles(root) ==
    {path \in files : Len(path) > 1 /\ path[1] = root[1] /\ path[2] # "Video"}

\* C13: whatever channel data was collected and exported in a session, the
\* root of the session has at most one directory for channel data, named
\* Channel, it has it once channel data was collected with export_data, and
\* every channel file of the session is in it
C13_OneChannelDirectory ==
    \A root \in {<<path[1]>> : path \in directories} :
        /\ ChannelDirectories(root) \subseteq {Append(root, "Channel")}
        /\ \A path \in ChannelFiles(root) : Len(path) = 3 /\ path[2] = "Channel"

-----------------------------------------------------------------------------
(* The collection of the channel data and of the video data *)

InitCollect ==
    /\ Start({OneTable}, {OfficialBanks})
    /\ StartSessions({{}})
    /\ StartCollect(YouTubes)

NextCollect == GetChannelData \/ GetVideoData

SpecCollect == InitCollect /\ [][NextCollect]_vars

(* The requests of one call of request_data *)

NextRequests == RequestData

SpecRequests == InitCollect /\ [][NextRequests]_vars

(* The statistics of the videos of one response *)

NextStats == GetVideoStats

SpecStats == InitCollect /\ [][NextStats]_vars

-----------------------------------------------------------------------------------------------------------------------------------------------------
(* The summary by unit *)

\* summary.summarize_by_unit(starting_data, channel_data, export_data): the
\* unit summary is put in the dictionary of the caller before the export
SummarizeByUnit ==
    /\ member_channel_data # None
    /\ {"channel_stats", "channel_video_summary"} \subseteq DOMAIN member_channel_data
    /\ \E export_data \in BOOLEAN :
          LET data == summarize_by_unit(member_data, member_channel_data)
              datetime == create_timestamp(Now)
              exported == IF export_data
                          THEN export_channel_data(Fs, "unit_summary", datetime, TRUE, Now)
                          ELSE [Fs EXCEPT !.error = "none"]
          IN  /\ member_channel_data' =
                     [key \in DOMAIN member_channel_data \cup {"unit_summary"} |->
                         IF key = "unit_summary" THEN data ELSE member_channel_data[key]]
              /\ Leaves(exported)
              /\ error' = exported.error
    /\ operation' = "summarize_by_unit"
    /\ requests' = <<>>
    /\ UNCHANGED <<typesVars, keywordsVars, input_ids, utilVars, session_request, session_SESSION_PATH, clock,
                   youtube, api_responses, member_video_data, video_stats, member_data>>

\* the group, the branch and the units a member may have in the starting
\* data; the last is no unit of GROUPS_BRANCHES_UNITS
Assignments ==
    { <<"Hololive", "Japan", "1st Generation", "GAMERS">>,
      <<"Hololive", "Japan", "GAMERS", "nan">>,
      <<"Hololive", "Indonesia", "1st Generation", "nan">>,
      <<"Holostars", "Japan", "1st Generation", "nan">>,
      <<"Hololive", "Japan", "Staff", "nan">> }

\* the starting data of the members, each with one of the assignments
MemberDataTried ==
    {DataFrame(STARTING_COLUMNS,
               [k \in 1..Len(MEMBERS) |->
                   StartingRow(k, of[k][1], of[k][2], of[k][3], of[k][4])]) :
        of \in [1..Len(MEMBERS) -> Assignments]}

\* the channel data imported from a session: the channel stats of some
\* members and the channel video summary of the members with videos
ChannelDataTried ==
    {[channel_stats |->
          DataFrame(<<"channel_id", "subscriber_count", "video_count", "view_count">>,
                    RowsFor(counted, ChannelStatsRow)),
      channel_video_summary |->
          DataFrame(<< <<"member_data", "name">>,
                       <<"video_attributes", "video_duration_(sum)">>,
                       <<"video_attributes", "live_stream_duration_(sum)">> >>,
                    RowsFor(summarized, ChannelVideoSummaryRow))] :
        counted \in SUBSET (1..Len(MEMBERS)), summarized \in SUBSET (1..Len(MEMBERS))}

InitUnits ==
    /\ Start({OneTable}, {OfficialBanks})
    /\ StartSessions({{}})
    /\ youtube = NoYouTube
    /\ requests = <<>>
    /\ api_responses = <<>>
    /\ member_channel_data \in ChannelDataTried
    /\ member_video_data = None
    /\ video_stats = NoTable
    /\ member_data \in MemberDataTried
    /\ operation = "none"

NextUnits == SummarizeByUnit \/ Tick

SpecUnits == InitUnits /\ [][NextUnits]_vars

-----------------------------------------------------------------------------
(* The choice of a session *)

\* the texts entered at the prompt
Inputs ==
    { <<"0">>, <<"1">>, <<"2">>, <<" ", "1", " ">>, <<"+", "1">>, <<"-", "1">>,
      <<"-", "0">>, <<"0", "1">>, <<"1", "_", "0">>, <<"1", ".", "0">>, <<>>,
      <<"o", "n", "e">>, <<"1", " ", "0">>, <<"_", "1">> }

\* setup.request_session(session_open): the sessions are listed once, before
\* the loop
RequestSession ==
    /\ session_request.pc \in {"none", "returned"}
    /\ \E session_open \in BOOLEAN, session_dir_paths \in Listings(Fs) :
          session_request' = [NoRequest EXCEPT !.pc = "prompt",
                                               !.session_open = session_open,
                                               !.session_dir_paths = session_dir_paths]
    /\ UNCHANGED <<video_attributes, applied, responses, summary, error, keyword_banks,
                   video_title_keywords, content_types, content_summary, input_ids, utilVars,
                   sessionVars, collectVars>>

\* the user enters a text at the prompt
EnterInput ==
    /\ session_request.pc \in {"prompt", "invalid"}
    /\ \E text \in Inputs :
          LET request == request_session(session_request, text)
          IN  /\ session_request' = request
              /\ session_SESSION_PATH' =
                     IF request.pc = "returned" /\ request.session_open
                     THEN open_session(request.session_name)
                     ELSE session_SESSION_PATH
    /\ UNCHANGED <<video_attributes, applied, responses, summary, error, keyword_banks,
                   video_title_keywords, content_types, content_summary, input_ids, utilVars,
                   directories, files, SESSION_PATH, clock, created, collectVars>>

InitPrompt ==
    /\ Start({OneTable}, {OfficialBanks})
    /\ StartSessions(EarlierSessions)
    /\ StartCollect({NoYouTube})

NextPrompt == RequestSession \/ EnterInput

SpecPrompt == InitPrompt /\ [][NextPrompt]_vars

-----------------------------------------------------------------------------
(* The files of a session, written and read again *)

\* setup.open_session(session_name), of a session that is listed
OpenSession ==
    /\ \E path \in {directory \in directories : Len(directory) = 1} :
          session_SESSION_PATH' = open_session(path[1])
    /\ operation' = "open_session"
    /\ UNCHANGED <<prepareVars, directories, files, SESSION_PATH, clock, created, youtube,
                   requests, api_responses, member_channel_data, member_video_data,
                   video_stats, member_data, utilVars>>

\* the channel data of a session: a session may be there from an earlier run
InitStore ==
    /\ Start({OneTable}, {OfficialBanks})
    /\ StartSessions({{}, {<<Instants[1].date \o "_YT-DAPI_Session">>}})
    /\ StartCollect({NoYouTube})

NextStore == OpenSession \/ Tick \/ ExportChannelData \/ ImportChannelData

SpecStore == InitStore /\ [][NextStore]_vars

\* the video data of a session
InitVideoStore ==
    /\ Start({OneTable}, {OfficialBanks})
    /\ StartSessions({{}})
    /\ StartCollect({NoYouTube})

NextVideoStore == OpenSession \/ Tick \/ ExportVideoData \/ ImportVideoData

SpecVideoStore == InitVideoStore /\ [][NextVideoStore]_vars

-----------------------------------------------------------------------------
(* The batches of ids *)

\* the ids of the videos the API holds
AllVideoIds == <<VideoId(1, 1), VideoId(1, 2), VideoId(2, 1), VideoId(2, 2)>>

\* the sequences of ids split: n ids, in the order of AllVideoIds from one of them on
SplitInputs ==
    {[i \in 1..n |-> AllVideoIds[((first + i - 2) % Len(AllVideoIds)) + 1]] :
        first \in 1..Len(AllVideoIds), n \in 0..MaxData}

\* data_reformatting.split_n_sized_batches(data, batch_size)
SplitNSizedBatches ==
    /\ batched_data' = split_n_sized_batches(split_data, split_size)
    /\ operation' = "split_n_sized_batches"
    /\ UNCHANGED <<prepareVars, sessionVars, youtube, requests, api_responses,
                   member_channel_data, member_video_data, video_stats, member_data,
                   split_data, split_size, csv_files, imported, extractions>>

\* youtube_api.request_data(client, 'videos', ids, max_results)
RequestVideos ==
    /\ \E schedule \in Schedules(Ceil(Len(split_data), split_size)) :
          \E requested \in {request_data(youtube.videos, "videos", split_data, split_size,
                                        schedule)} :
              /\ error' = requested.error
              /\ requests' = requested.requests
              /\ api_responses' = requested.responses
    /\ operation' = "request_data"
    /\ UNCHANGED <<typesVars, keywordsVars, input_ids, session_request, sessionVars, youtube,
                   member_channel_data, member_video_data, video_stats, member_data,
                   utilVars>>

InitBatches ==
    /\ StartPrepare({OneTable}, {OfficialBanks})
    /\ StartSplit(SplitInputs, 1..MaxBatch)
    /\ StartStore
    /\ StartSessions({{}})
    /\ StartCollect({NoYouTube})

NextBatches == SplitNSizedBatches \/ RequestVideos

SpecBatches == InitBatches /\ [][NextBatches]_vars

-----
(* Failures of the requests *)

\* the request failed, other than by the 404 the API gives for the items of a
\* playlist without videos
Failed(request) ==
    /\ request.outcome # "ok"
    /\ ~ /\ request.resource_type = "playlistitems"
          /\ request.outcome = "HttpError"
          /\ youtube.playlists[request.playlistId] = <<>>

\* what the operation called last returned, None when it raised
Returned ==
    CASE operation = "get_channel_data" -> member_channel_data
      [] operation = "get_video_data" -> member_video_data
      [] OTHER -> None

\* C14: when a request of the collection failed, the operation that made it
\* raised the failure and returned nothing: no request that failed is followed
\* by a normal return.
C14_FailurePropagates ==
    (\E i \in 1..Len(requests) : Failed(requests[i]))
        => error # "none" /\ Returned = None

-----------------------------------------------------------------------------
(* Members without videos *)

\* the requests of the log for the items of the uploads playlist of member i
PlaylistRequests(log, i) ==
    SelectSeq(log, LAMBDA request : /\ request.resource_type = "playlistitems"
                                    /\ request.playlistId = UploadsId(i))

\* the requests of the log for videos of member i
VideoRequests(log, i) ==
    SelectSeq(log, LAMBDA request :
                      /\ request.resource_type = "videos"
                      /\ \E n \in 1..Len(request.id), j \in 1..MaxPages :
                            request.id[n] = VideoId(i, j))

\* the playlist request for member i yielded no responses: its first request
\* got HttpError, which request_data takes for the end of the playlist
NoResponses(log, i) ==
    /\ PlaylistRequests(log, i) # <<>>
    /\ PlaylistRequests(log, i)[1].outcome = "HttpError"

\* the directories and the files of the video data of member i
MemberPaths(paths, i) ==
    {path \in paths : /\ Len(path) >= 3
                      /\ path[2] = "Video"
                      /\ path[3] = Underscored(MEMBERS[i])}

\* C15: in a call of get_video_data, a member whose playlist request yields no
\* responses is not in the dictionary returned, no video request and no
\* export is made for it, and the member after it is still asked for; no
\* exception comes of it. A step that leaves operation "get_video_data" is a
\* call of get_video_data.
C15_MemberWithoutVideosSkipped ==
    [][operation' = "get_video_data" =>
        \A i \in 1..Len(MEMBERS) :
            NoResponses(requests', i) =>
                /\ Len(PlaylistRequests(requests', i)) = 1
                /\ VideoRequests(requests', i) = <<>>
                /\ member_video_data' # None => MEMBERS[i] \notin DOMAIN member_video_data'
                /\ MemberPaths(directories', i) = MemberPaths(directories, i)
                /\ MemberPaths(files', i) = MemberPaths(files, i)
                /\ i < Len(MEMBERS) => PlaylistRequests(requests', i + 1) # <<>>
                /\ i = Len(MEMBERS) => error' = "none"]_vars

\* the first member has no videos and was skipped, the second has videos and
\* its video data was returned
C15_Witness ==
    /\ operation = "get_video_data"
    /\ error = "none"
    /\ NoResponses(requests, 1)
    /\ youtube.playlists[UploadsId(1)] = <<>>
    /\ member_video_data # None
    /\ DOMAIN member_video_data = {MEMBERS[2]}

-----------------------------------------------------------------------------
(* Keyword banks without keywords *)

\* the banks hold no keyword for English, Japanese or Indonesian
NoKeywordOfTheLanguages(banks) ==
    \A i \in 1..Len(banks) :
        banks[i].language \in {"English", "Japanese", "Indonesian"} =>
            \A j \in 1..Len(banks[i].bank) : banks[i].bank[j].keywords = <<>>

\* C16: extract_title_keywords raises ValueError exactly when the keyword
\* banks hold no keyword for any of English, Japanese and Indonesian, and then
\* the video data and the files are as they were before the call.
C16_NoKeywordRaisesFirst ==
    [][ExtractTitleKeywords =>
        /\ error' = "ValueError" <=> NoKeywordOfTheLanguages(keyword_banks)
        /\ NoKeywordOfTheLanguages(keyword_banks) =>
              /\ video_attributes' = video_attributes
              /\ video_title_keywords' = video_title_keywords
              /\ directories' = directories
              /\ files' = files
              /\ SESSION_PATH' = SESSION_PATH]_vars

\* extract_title_keywords raised ValueError on banks with an English category
\* and with a bank of another language, and nothing was made
C16_Witness ==
    /\ error = "ValueError"
    /\ keyword_banks = EmptyBanks
    /\ video_title_keywords = NoTable
    /\ directories = {}
    /\ files = {}

-----------------------------------------------------------------------------
(* The sums of the units *)

\* the members of the starting data of the group and the branch whose unit or
\* unit2 is the unit
MembersOfUnit(group, branch, unit) ==
    {k \in 1..Len(member_data.rows) :
        /\ member_data.rows[k].group = group
        /\ member_data.rows[k].branch = branch
        /\ unit \in {member_data.rows[k].unit, member_data.rows[k].unit2}}

\* the sum of Value(k) over the members k of the set
RECURSIVE SumOver(_, _)
SumOver(Value(_), members) ==
    IF members = {} THEN 0
    ELSE LET k == CHOOSE m \in members : TRUE
         IN  Value(k) + SumOver(Value, members \ {k})

\* the value of the column in the row of the table whose key is the value
\* given, 0 when the table has no such row
ValueOf(table, key, value, column) ==
    LET rows == SelectSeq(table.rows, LAMBDA r : r[key] = value)
    IN  IF rows = <<>> THEN 0 ELSE rows[1][column]

\* the row summarize_by_unit is to write for the unit
UnitRow(group, branch, unit) ==
    LET members == MembersOfUnit(group, branch, unit)
        Stat(column) ==
            LET Value(k) == ValueOf(member_channel_data.channel_stats, "channel_id",
                                    member_data.rows[k].youtube_channel_id, column)
            IN  SumOver(Value, members)
        Duration(column) ==
            LET Value(k) == ValueOf(member_channel_data.channel_video_summary,
                                    <<"member_data", "name">>, member_data.rows[k].name,
                                    <<"video_attributes", column>>)
            IN  SumOver(Value, members)
    IN  [group |-> group, branch |-> branch, unit |-> unit,
         member_count |-> Cardinality(members),
         subscriber_count |-> Stat("subscriber_count"),
         video_count |-> Stat("video_count"),
         view_count |-> Stat("view_count"),
         total_video_duration |-> Duration("video_duration_(sum)"),
         total_live_stream_duration |-> Duration("live_stream_duration_(sum)")]

\* C17: the unit summary has one row for each unit of each branch of each
\* group of GROUPS_BRANCHES_UNITS, with the number of the members of the
\* starting data of that group and branch whose unit or unit2 is the unit, and
\* the sums of their channel stats and durations; zeros for a unit without
\* members.
C17_UnitSums ==
    "unit_summary" \in DOMAIN member_channel_data =>
        LET rows == member_channel_data.unit_summary.rows
        IN  \A i \in 1..Len(GROUPS_BRANCHES_UNITS) :
                \A j \in 1..Len(GROUPS_BRANCHES_UNITS[i].units) :
                    LET group == GROUPS_BRANCHES_UNITS[i].group
                        branch == GROUPS_BRANCHES_UNITS[i].branch
                        unit == GROUPS_BRANCHES_UNITS[i].units[j]
                        written == SelectSeq(rows, LAMBDA r : /\ r.group = group
                                                              /\ r.branch = branch
                                                              /\ r.unit = unit)
                    IN  written = <<UnitRow(group, branch, unit)>>

-----------------------------------------------------------------------------
(* The session chosen *)

\* the integer each of the texts entered denotes; the other texts entered
\* (1.0, the empty text, one, 1 0, _1) denote no integer
Denoted ==
    { <<<<"0">>, 0>>, <<<<"1">>, 1>>, <<<<"2">>, 2>>, <<<<" ", "1", " ">>, 1>>,
      <<<<"+", "1">>, 1>>, <<<<"-", "1">>, -1>>, <<<<"-", "0">>, 0>>,
      <<<<"0", "1">>, 1>>, <<<<"1", "_", "0">>, 10>> }

\* the user entered an integer i with 0 <= i <= n - 1, n the number of the
\* sessions listed
Selects(text, i, n) == <<text, i>> \in Denoted /\ i \in 0..(n - 1)

\* C18: request_session returns only on a text that denotes an integer i with
\* 0 <= i <= n - 1 for the n sessions listed, and then returns the name of the
\* i-th session listed (and opens it when asked to); on every other text it
\* changes nothing but the text entered and prompts again, so that without a
\* session listed it never returns.
C18_ReturnsTheSessionSelected ==
    [][session_request.pc \in {"prompt", "invalid"} /\ session_request' # session_request =>
        LET n == Len(session_request.session_dir_paths)
            text == session_request'.entered
        IN  /\ session_request'.session_dir_paths = session_request.session_dir_paths
            /\ session_request'.session_open = session_request.session_open
            /\ IF \E i \in 0..(n - 1) : Selects(text, i, n)
               THEN /\ session_request'.pc = "returned"
                    /\ \E i \in 0..(n - 1) :
                          /\ Selects(text, i, n)
                          /\ session_request'.session_name =
                                 session_request.session_dir_paths[i + 1]
                    /\ session_SESSION_PATH' =
                           IF session_request.session_open
                           THEN <<session_request'.session_name>>
                           ELSE session_SESSION_PATH
               ELSE /\ session_request'.pc = "invalid"
                    /\ session_request'.session_name = None
                    /\ session_SESSION_PATH' = session_SESSION_PATH
            /\ n = 0 => session_request'.pc = "invalid"
            /\ UNCHANGED <<directories, files, SESSION_PATH, error>>]_vars

\* the second of two sessions listed was selected by " 1 " and opened
C18_Witness ==
    /\ session_request.pc = "returned"
    /\ session_request.entered = <<" ", "1", " ">>
    /\ Len(session_request.session_dir_paths) = 2
    /\ session_request.session_name = session_request.session_dir_paths[2]
    /\ session_SESSION_PATH = <<session_request.session_name>>

-----------------------------------------------------------------------------
(* The counts of the video stats *)

\* the statistics key of each count column, and the companion column that
\* tells whether the count was enabled
StatisticsKey(column) ==
    CASE column = "view_count" -> "viewCount"
      [] column = "like_count" -> "likeCount"
      [] column = "comment_count" -> "commentCount"

Companion(column) ==
    CASE column = "view_count" -> "views_enabled"
      [] column = "like_count" -> "likes_enabled"
      [] column = "comment_count" -> "comments_enabled"

\* the count of row i is null exactly when the API response lacks it, and is
\* the count of the response otherwise
NullWhenAbsent(column, i) ==
    LET statistics == Items(api_responses)[i].statistics
        count == video_stats.rows[i][column]
    IN  IF StatisticsKey(column) \in DOMAIN statistics
        THEN count = statistics[StatisticsKey(column)] /\ count # NoCount
        ELSE count = NoCount

\* the companion of the count is a column, false in row i exactly when the
\* API response lacks the count
CompanionTells(column, i) ==
    /\ HasColumn(video_stats, Companion(column))
    /\ video_stats.rows[i][Companion(column)]
          = (StatisticsKey(column) \in DOMAIN Items(api_responses)[i].statistics)

\* C19, as claimed: each of view_count, like_count and comment_count is null
\* independently of the other two, and each has a companion boolean column
\* that is false exactly when the count was absent from the API response.
C19_CompanionOfEveryCount ==
    video_stats # NoTable =>
        \A i \in 1..Len(video_stats.rows) :
            \A column \in {"view_count", "like_count", "comment_count"} :
                NullWhenAbsent(column, i) /\ CompanionTells(column, i)

\* C19, amended: each of view_count, like_count and comment_count is null
\* exactly when it was absent from the API response, independently of the
\* other two; like_count and comment_count each have a companion boolean
\* column that is false exactly when the count was absent; view_count has no
\* companion column.
C19_CompanionOfLikesAndComments ==
    video_stats # NoTable =>
        /\ Len(video_stats.rows) = Len(Items(api_responses))
        /\ ~HasColumn(video_stats, Companion("view_count"))
        /\ \A i \in 1..Len(video_stats.rows) :
              /\ video_stats.rows[i].video_id = Items(api_responses)[i].id
              /\ \A column \in {"view_count", "like_count", "comment_count"} :
                    NullWhenAbsent(column, i)
              /\ \A column \in {"like_count", "comment_count"} : CompanionTells(column, i)

\* a video with no likes and likes enabled, with comments disabled and
\* without a view count, beside a video with every count
C19_Witness ==
    /\ video_stats # NoTable
    /\ Len(video_stats.rows) = 2
    /\ video_stats.rows[1].like_count = 0 /\ video_stats.rows[1].likes_enabled
    /\ video_stats.rows[1].comment_count = NoCount /\ ~video_stats.rows[1].comments_enabled
    /\ video_stats.rows[1].view_count = NoCount
    /\ video_stats.rows[2].view_count # NoCount

-----------------------------------------------------------------------------
(* The pages of a playlist *)

\* the last operation was request_data for the items of a playlist
PlaylistFetched ==
    /\ operation = "request_data"
    /\ requests # <<>>
    /\ requests[1].resource_type = "playlistitems"

\* the response of the API to request i of the log, when it did not fail
ResponseTo(i) ==
    PlaylistPage(youtube.playlists[requests[i].playlistId], requests[i].pageToken)

\* C20: for a playlist-item fetch the first request has no page token, each
\* later request follows a response with a nextPageToken and carries that
\* token, no request follows a response without nextPageToken, a fetch whose
\* requests all succeeded ends with such a response, and the pages returned
\* are the pages received, in the order received.
C20_PagesInOrder ==
    PlaylistFetched =>
        LET n == Len(requests)
            received == SelectSeq([i \in 1..n |-> i],
                                  LAMBDA i : requests[i].outcome = "ok")
        IN  /\ requests[1].pageToken = NoToken
            /\ \A i \in 1..(n - 1) :
                  /\ requests[i].outcome = "ok"
                  /\ "nextPageToken" \in DOMAIN ResponseTo(i)
                  /\ requests[i + 1].pageToken = ResponseTo(i).nextPageToken
                  /\ requests[i + 1].playlistId = requests[i].playlistId
            /\ requests[n].outcome = "ok" => "nextPageToken" \notin DOMAIN ResponseTo(n)
            /\ error = "none" =>
                  api_responses = [k \in 1..Len(received) |-> ResponseTo(received[k])]

\* a playlist of MaxPages pages was fetched page by page
C20_Witness ==
    /\ PlaylistFetched
    /\ error = "none"
    /\ Len(requests) = MaxPages
    /\ Len(api_responses) = MaxPages
    /\ requests[MaxPages].pageToken = PageToken(MaxPages)

-----------------------------------------------------------------------------
(* The batches *)

\* the values of the batches, in order
RECURSIVE Flatten(_)
Flatten(batches) ==
    IF batches = <<>> THEN <<>> ELSE Head(batches) \o Flatten(Tail(batches))

\* the least number of batches of n values that hold m values
BatchesNeeded(m, n) == CHOOSE k \in 0..m : k * n >= m /\ (k = 0 \/ (k - 1) * n < m)

\* C21: split_n_sized_batches(data, n) returns ceil(len(data)/n) batches whose
\* concatenation is data in its order; every batch but the last has n items
\* and the last between 1 and n; empty data gives no batch; and a
\* request_data for videos that returns has requested every id once, one
\* request per batch.
C21_BatchesCoverData ==
    /\ operation = "split_n_sized_batches" =>
          /\ Len(batched_data) = BatchesNeeded(Len(split_data), split_size)
          /\ Flatten(batched_data) = split_data
          /\ \A i \in 1..(Len(batched_data) - 1) : Len(batched_data[i]) = split_size
          /\ batched_data # <<>> =>
                 Len(batched_data[Len(batched_data)]) \in 1..split_size
          /\ split_data = <<>> => batched_data = <<>>
    /\ operation = "request_data" /\ error = "none" =>
          /\ Len(requests) = BatchesNeeded(Len(split_data), split_size)
          /\ Flatten([i \in 1..Len(requests) |-> requests[i].id]) = split_data
          /\ \A i \in 1..Len(requests) : requests[i].outcome = "ok"
          /\ Len(Items(api_responses)) = Len(split_data)

\* C21 witness: 12 values with n = 5 were split into batches of 5, 5 and 2
C21_Witness ==
    /\ operation = "split_n_sized_batches"
    /\ Len(split_data) = 12
    /\ split_size = 5
    /\ [i \in 1..Len(batched_data) |-> Len(batched_data[i])] = <<5, 5, 2>>

-----------------------------------------------------------------------------
(* The files read again *)

\* the value of a table as a value read: its type and the value
Held(dtype, value, null) ==
    IF dtype = "bool" THEN [dtype |-> "bool", value |-> value]
    ELSE IF value = null THEN [dtype |-> "float", value |-> "NaN"]
    ELSE [dtype |-> dtype, value |-> value]

\* the table read has the rows, the columns and, but for the columns of
\* timestamps and durations, the values of the table data
SameButTimes(read, data, levels) ==
    /\ Len(read.rows) = Len(data.rows)
    /\ read.columns = data.columns
    /\ \A i \in 1..Len(data.rows) :
          \A column \in Range(data.columns) :
              LET dtype == DType(ColumnName(column, levels))
                  held == Held(dtype, data.rows[i][column], NullOfColumn(column, levels))
              IN  dtype \notin {"datetime", "timedelta"} =>
                     /\ read.rows[i][column].dtype = held.dtype
                     /\ read.rows[i][column].value = held.value

\* C22: a table exported to a CSV file of the session and imported again has
\* the same number of rows, the same column names and the same values, except
\* for the coercion of the timestamp and duration columns.
C22_RoundTrip ==
    operation = "import_video_data" /\ imported.got.found =>
        \A data \in ExportedTables(imported.asked) :
            csv_files[imported.got.file_path] = to_csv(data, Levels(imported.asked)) =>
                SameButTimes(imported.got.data, data, Levels(imported.asked))

-----------------------------------------------------------------------------
(* The keyword extraction run again *)

\* the keyword set of each video of a table of title keywords
KeywordSets(table) ==
    [id \in {table.rows[i]["video_id"] : i \in 1..Len(table.rows)} |->
        {table.rows[i]["title_keywords"] :
            i \in {j \in 1..Len(table.rows) : table.rows[j]["video_id"] = id}}]

-----------------------------------------------------------------------------
(* The latest file of a data type *)

\* the files of the directory whose name holds the name of the data type
FilesOfType(dir_path, data_type) ==
    {path \in files :
        /\ Len(path) = Len(dir_path) + 1
        /\ SubSeq(path, 1, Len(dir_path)) = dir_path
        /\ Contains(Stem(path[Len(path)]), Characters(data_type))}

\* the timestamp prefix of a file: the date as one number, and the minute of the day
Stamp(path) ==
    LET at == _extract_datetime(Stem(path[Len(path)]))
    IN  <<(at.year * 100 + at.month) * 100 + at.day, at.hour * 60 + at.minute>>

\* the timestamp a is not later than the timestamp b
NotLater(a, b) == a[1] < b[1] \/ (a[1] = b[1] /\ a[2] <= b[2])

\* every file of the set has a timestamp prefix
Stamped(paths) ==
    \A path \in paths : _extract_datetime(Stem(path[Len(path)])).error = "none"

\* C24: when the Channel directory of the session holds several files of a
\* data type, each with a timestamp prefix, import_channel_data returns the
\* content of the one with the latest timestamp, and the datetime of the
\* envelope is that timestamp.
C24_LatestFileImported ==
    LET held == FilesOfType(Append(session_SESSION_PATH, "Channel"), imported.asked)
    IN  operation = "import_channel_data" /\ session_SESSION_PATH # None
        /\ held # {} /\ Stamped(held) =>
            /\ imported.got.found
            /\ \A path \in held : NotLater(Stamp(path), Stamp(imported.got.file_path))
            /\ imported.got.data = read_csv(csv_files[imported.got.file_path])
            /\ imported.got.datetime =
                   _extract_datetime(Stem(imported.got.file_path[Len(imported.got.file_path)]))

-----------------------------------------------------------------------------
(* The bracketed words of a title *)

\* title[i] opens a bracket of a style and title[j] is the first closer of
\* that style after it
IsSpan(title, i, j) ==
    \E s \in 1..Len(BracketPairs) :
        /\ title[i] = BracketPairs[s][1]
        /\ title[j] = BracketPairs[s][2]
        /\ \A k \in (i + 1)..(j - 1) : title[k] # BracketPairs[s][2]

Spans(title) == {<<i, j>> \in (1..Len(title)) \X (1..Len(title)) : i < j /\ IsSpan(title, i, j)}

\* C25 as claimed: every bracketed word of a title is the content of a span
\* from an opener to the first closer of its style after it, and holds no
\* bracket character of the six styles.
C25_SpanContent ==
    video_title_keywords # NoTable =>
        \A r \in KeywordRows : \A word \in extract_bracketed_words(r["title"]) :
            /\ word \in r["title_keywords"]
            /\ \E span \in Spans(r["title"]) :
                  word = SubSeq(r["title"], span[1] + 1, span[2] - 1)
            /\ \A i \in 1..Len(word) : word[i] \notin BracketChars

\* C25 amended: every bracketed word of a title is the content, with the
\* bracket characters of the six styles removed, of a span from an opener to
\* the first closer of its style after it, and holds no bracket character of
\* the six styles.
C25_SpanContentStripped ==
    video_title_keywords # NoTable =>
        \A r \in KeywordRows : \A word \in extract_bracketed_words(r["title"]) :
            /\ word \in r["title_keywords"]
            /\ \E span \in Spans(r["title"]) :
                  word = SelectSeq(SubSeq(r["title"], span[1] + 1, span[2] - 1),
                                   LAMBDA c : c \notin BracketChars)
            /\ \A i \in 1..Len(word) : word[i] \notin BracketChars

\* C25 witness: the keywords were extracted from a title whose lenticular
\* span holds a round bracket that is not closed, and the span's content
\* without that bracket is a keyword of it
C25_Witness ==
    /\ video_title_keywords # NoTable
    /\ \E r \in KeywordRows :
          /\ r["title"] = Opener \o Round \o Closer
          /\ extract_bracketed_words(r["title"]) = {<<"C", "o", "v", "e", "r">>}
          /\ <<"C", "o", "v", "e", "r">> \in r["title_keywords"]

-----------------------------------------------------------------------------
(* The file name of a timestamp given to an export *)

\* the fields of a datetime, truncated to the minute
MinuteOf(timestamp) ==
    [error |-> "none",
     year |-> int(Slice(Characters(timestamp.date), 0, 4)).value,
     month |-> int(Slice(Characters(timestamp.date), 5, 7)).value,
     day |-> int(Slice(Characters(timestamp.date), 8, 10)).value,
     hour |-> int(Characters(timestamp.hour)).value,
     minute |-> int(Characters(timestamp.minute)).value]

\* C26: an export_video_data given a datetime as timestamp, whatever
\* auto_timestamp is, writes the file '<YYYY-MM-DD>-<HHMM>_<file_name>.csv' of
\* that timestamp, and _extract_datetime of the file's stem is the timestamp
\* truncated to the minute.
C26_DatetimeNamesFile ==
    [][\A filename \in {"video_attributes", "video_title_keywords"}, auto_timestamp \in BOOLEAN :
          LET timestamp == DatetimeOf(Now)
              exported == export_video_data(Fs, MEMBERS[1], filename, timestamp,
                                            auto_timestamp, Now)
              plain == export_video_data(Fs, MEMBERS[1], filename, NoTimestamp, FALSE, Now)
              name == timestamp.date \o "-" \o timestamp.hour \o timestamp.minute
                          \o "_" \o Lowered(Underscored(MEMBERS[1])) \o "_" \o filename \o ".csv"
          IN  /\ operation' = "export_video_data"
              /\ plain.error = "none"
              /\ files' = exported.files
              /\ directories' = exported.directories
              /\ error' = exported.error
              => /\ error' = "none"
                 /\ \E path \in files' : path[Len(path)] = name
                 /\ _extract_datetime(Stem(name)) = MinuteOf(timestamp)]_vars

-----------------------------------------------------------------------------
(* The session the exports write to *)

\* the session directories
SessionsOf(dirs) == {dir \in dirs : Len(dir) = 1}

\* the path is below the directory
Below(path, dir) == Len(path) > Len(dir) /\ SubSeq(path, 1, Len(dir)) = dir

\* C27: once open_session has opened a session, an export_channel_data makes
\* no session directory and writes its file under the directory of the
\* opened session, the one the imports read.
C27_ExportsToOpenedSession ==
    [][session_SESSION_PATH # None /\ operation' = "export_channel_data" =>
          /\ SessionsOf(directories') = SessionsOf(directories)
          /\ \A path \in (files' \ files) \cup (directories' \ directories) :
                 Below(path, session_SESSION_PATH)]_vars

-----------------------------------------------------------------------------
(* datapreparation/coalescence.py and summary.py: the video data of the
   members coalesced and summarised *)

\* number of videos of a member in the prepared data
MaxVideos == 2

\* a dictionary with its items in the order of insertion
Dict(items) == [items |-> items]

Keys(dictionary) == {dictionary.items[i].key : i \in 1..Len(dictionary.items)}

Value(dictionary, key) ==
    dictionary.items[CHOOSE i \in 1..Len(dictionary.items) : dictionary.items[i].key = key].value

\* dictionary[key] = value: a new key is put last
Assign(dictionary, key, value) ==
    IF key \in Keys(dictionary)
    THEN Dict([i \in 1..Len(dictionary.items) |->
                 IF dictionary.items[i].key = key THEN [key |-> key, value |-> value]
                 ELSE dictionary.items[i]])
    ELSE Dict(Append(dictionary.items, [key |-> key, value |-> value]))

\* member_name_key.replace('_', ' ')
Spaced(key) ==
    CASE key = "Tokino_Sora" -> "Tokino Sora"
      [] key = "Roboco" -> "Roboco"
      [] key = "Overall" -> "Overall"

\* the datasets of one member
VIDEO_DATASETS == {"video_attributes", "video_stats", "video_types", "content_types"}

\* the merges of coalesce_video_data for one member, with the member's name
\* as first column
MergedVideoData(member_name, video_data) ==
    LET merged == MergeOn(MergeOn(video_data["video_attributes"].data,
                                  video_data["video_stats"].data, "video_id", "video_id"),
                          video_data["video_types"].data, "video_id", "video_id")
    IN  DataFrame(<<"member_name">> \o merged.columns,
                  [i \in 1..Len(merged.rows) |->
                      [c \in {"member_name"} \cup Range(merged.columns) |->
                          IF c = "member_name" THEN member_name ELSE merged.rows[i][c]]])

\* the merged tables of the members of names[k..] that have video data; a
\* member without one of the three datasets raises KeyError
RECURSIVE MergedFrom(_, _, _)
MergedFrom(names, k, member_video_data_) ==
    IF k > Len(names) THEN [error |-> "none", datasets |-> <<>>]
    ELSE LET key == Underscored(names[k])
             rest == MergedFrom(names, k + 1, member_video_data_)
         IN  IF key \notin Keys(member_video_data_) THEN rest
             ELSE IF ~({"video_attributes", "video_stats", "video_types"}
                          \subseteq DOMAIN Value(member_video_data_, key))
             THEN [error |-> "KeyError", datasets |-> <<>>]
             ELSE IF rest.error # "none" THEN rest
             ELSE [error |-> "none",
                   datasets |-> <<MergedVideoData(names[k],
                                                  Value(member_video_data_, key))>>
                                \o rest.datasets]

\* pd.concat(merged_video_datasets, ignore_index=True) of tables with the
\* same columns
RECURSIVE ConcatRows(_)
ConcatRows(datasets) ==
    IF datasets = <<>> THEN <<>> ELSE Head(datasets).rows \o ConcatRows(Tail(datasets))

\* coalesce_video_data(starting_member_data, member_video_data): the
\* dictionary given, with the entry 'Overall'; pd.concat of no table raises
\* ValueError
coalesce_video_data(starting_member_data, member_video_data_) ==
    LET names == [k \in 1..Len(starting_member_data.rows) |->
                     starting_member_data.rows[k]["name"]]
        merged == MergedFrom(names, 1, member_video_data_)
    IN  IF merged.error # "none" THEN [error |-> merged.error, data |-> member_video_data_]
        ELSE IF merged.datasets = <<>>
        THEN [error |-> "ValueError", data |-> member_video_data_]
        ELSE [error |-> "none",
              data |-> Assign(member_video_data_, "Overall",
                              [data |-> DataFrame(merged.datasets[1].columns,
                                                  ConcatRows(merged.datasets))])]

\* the columns of one level of a member's summary
LevelRow(level, level_summary) ==
    [label \in {<<level, key>> : key \in DOMAIN level_summary} |-> level_summary[label[2]]]

\* the summary of one item of member_video_data: the name and the counts by
\* video type and by content type (the sums and the statistics of the
\* durations, publish dates and video stats add columns to the same row)
MemberSummary(member_name, member_data_) ==
    LevelRow("member_data", [name |-> Spaced(member_name)])
    @@ LevelRow("video_types", summarize_video_types(member_data_["video_types"].data))
    @@ LevelRow("content_types", summarize_content_types(member_data_["content_types"].data))

\* the loop of summarize_video_data over member_video_data.items(): an item
\* without one of the four datasets raises KeyError
RECURSIVE SummariesFrom(_, _)
SummariesFrom(items, i) ==
    IF i > Len(items) THEN [error |-> "none", rows |-> <<>>]
    ELSE IF ~(VIDEO_DATASETS \subseteq DOMAIN items[i].value)
    THEN [error |-> "KeyError", rows |-> <<>>]
    ELSE LET rest == SummariesFrom(items, i + 1)
         IN  IF rest.error # "none" THEN rest
             ELSE [error |-> "none",
                   rows |-> <<MemberSummary(items[i].key, items[i].value)>> \o rest.rows]

\* summarize_video_data(member_video_data, None, export_data): the dictionary
\* returned, or None when the call raised; pd.concat of no summary raises
\* ValueError; the summary is exported with its datetime
summarize_video_data(fs, member_video_data_, export_data, now) ==
    LET summaries == SummariesFrom(member_video_data_.items, 1)
        datetime == create_timestamp(now)
        exported == IF export_data
                    THEN export_channel_data(fs, "channel_video_summary", datetime, TRUE, now)
                    ELSE fs
    IN  IF summaries.error # "none"
        THEN [error |-> summaries.error, data |-> None, fs |-> fs]
        ELSE IF summaries.rows = <<>>
        THEN [error |-> "ValueError", data |-> None, fs |-> fs]
        ELSE IF exported.error # "none"
        THEN [error |-> exported.error, data |-> None, fs |-> exported]
        ELSE [error |-> "none",
              data |-> [channel_video_summary |->
                           [data |-> DataFrame(<<>>, summaries.rows),
                            datetime |-> datetime]],
              fs |-> exported]

(* The prepared video data tried *)

\* the prepared datasets of member k: the videos and the type of each
PreparedData(k, video_types) ==
    LET Table(columns, Cell(_, _)) ==
            [data |-> DataFrame(columns,
                                [j \in 1..Len(video_types) |->
                                    [c \in Range(columns) |-> Cell(j, c)]]),
             datetime |-> DatetimeOf(Instants[1])]
    IN  [video_attributes |->
             Table(<<"video_id", "title">>,
                   LAMBDA j, c : IF c = "video_id" THEN VideoId(k, j) ELSE SongName),
         video_stats |->
             Table(<<"video_id", "view_count">>,
                   LAMBDA j, c : IF c = "video_id" THEN VideoId(k, j) ELSE j),
         video_types |->
             Table(<<"video_id", "video_type">>,
                   LAMBDA j, c : IF c = "video_id" THEN VideoId(k, j) ELSE <<video_types[j]>>),
         content_types |->
             [data |-> DataFrame(<<"video_id", "content_types">>,
                                 [j \in 1..Len(video_types) |->
                                     [video_id |-> VideoId(k, j),
                                      content_types |-> {"Karaoke"}]]),
              datetime |-> DatetimeOf(Instants[1])]]

TypesTried == UNION {[1..n -> {"Normal", "Live Stream"}] : n \in 1..MaxVideos}

\* the video data of the members a session holds, prepared: each member of
\* the set with one or two videos
PreparedVideoData ==
    LET Of(k, types) == [key |-> Underscored(MEMBERS[k]), value |-> PreparedData(k, types)]
    IN  {Dict(<<>>)}
        \cup {Dict(<<Of(k, types)>>) : k \in 1..Len(MEMBERS), types \in TypesTried}
        \cup {Dict(<<Of(1, first), Of(2, second)>>) : first \in TypesTried, second \in TypesTried}

(* The operations of the preparation script on the prepared data *)

\* video_data = coalesce_video_data(starting_data, video_data)
CoalesceVideoData ==
    /\ "Overall" \notin Keys(member_video_data)
    /\ \E coalesced \in {coalesce_video_data(member_data, member_video_data)} :
          /\ error' = coalesced.error
          /\ member_video_data' = coalesced.data
    /\ operation' = "coalesce_video_data"
    /\ UNCHANGED <<typesVars, keywordsVars, input_ids, utilVars, session_request, sessionVars,
                   youtube, requests, api_responses, member_channel_data, video_stats,
                   member_data>>

\* channel_data = summary.summarize_video_data(video_data, channel_data)
SummarizeVideoData ==
    /\ member_channel_data = None
    /\ \E export_data \in BOOLEAN :
          \E summarised \in {summarize_video_data(Fs, member_video_data, export_data, Now)} :
              /\ Leaves(summarised.fs)
              /\ error' = summarised.error
              /\ member_channel_data' = summarised.data
    /\ operation' = "summarize_video_data"
    /\ UNCHANGED <<typesVars, keywordsVars, input_ids, utilVars, session_request,
                   session_SESSION_PATH, clock, youtube, requests, api_responses,
                   member_video_data, video_stats, member_data>>

InitSummary ==
    /\ Start({OneTable}, {OfficialBanks})
    /\ StartSessions({{}})
    /\ youtube \in {CHOOSE held \in YouTubes : TRUE}
    /\ requests = <<>>
    /\ api_responses = <<>>
    /\ member_channel_data = None
    /\ member_video_data \in PreparedVideoData
    /\ video_stats = NoTable
    /\ member_data = StartingData
    /\ operation = "none"

NextSummary == CoalesceVideoData \/ SummarizeVideoData

SpecSummary == InitSummary /\ [][NextSummary]_vars

\* C28: a summarize_video_data of video data that coalesce_video_data has
\* given its entry 'Overall' raises nothing and yields one summary row per
\* member of the video data, and none for 'Overall'.
C28_SummaryAfterCoalescence ==
    [][operation' = "summarize_video_data" /\ "Overall" \in Keys(member_video_data) =>
          /\ error' = "none"
          /\ member_channel_data' # None
          /\ LET rows == member_channel_data'.channel_video_summary.data.rows
                 Names(of) == [i \in 1..Len(of) |-> of[i][<<"member_data", "name">>]]
             IN  /\ Len(rows) = Cardinality(Keys(member_video_data) \ {"Overall"})
                 /\ \A k \in 1..Len(MEMBERS) :
                        Underscored(MEMBERS[k]) \in Keys(member_video_data)
                        <=> MEMBERS[k] \in Range(Names(rows))]_vars

-----------------------------------------------------------------------------
(* The exports of one run *)

\* a run that opens no session: the exports of channel data and video data
NextRun == Tick \/ ExportChannelData \/ ExportVideoData

SpecRun == InitStore /\ [][NextRun]_vars

\* the directory a file is in
Parent(path) == SubSeq(path, 1, Len(path) - 1)

\* C29: in a run that starts with no current session, the first export makes
\* one session directory, which becomes the current session, a later export
\* makes none, and every file an export writes is under the current session,
\* in Channel/ for channel data and in Video/<member>/ for video data.
C29_OneSessionOfTheRun ==
    [][operation' \in {"export_channel_data", "export_video_data"} =>
          /\ IF SESSION_PATH = None
             THEN /\ SESSION_PATH' # None
                  /\ SESSION_PATH' \notin directories
                  /\ SessionsOf(directories') = SessionsOf(directories) \cup {SESSION_PATH'}
                  /\ created' = <<SESSION_PATH'>>
             ELSE /\ SESSION_PATH' = SESSION_PATH
                  /\ SessionsOf(directories') = SessionsOf(directories)
                  /\ created' = created
          /\ \A path \in files' \ files :
                 IF operation' = "export_channel_data"
                 THEN Parent(path) = SESSION_PATH' \o <<"Channel">>
                 ELSE \E k \in 1..Len(MEMBERS) :
                         Parent(path) = SESSION_PATH' \o <<"Video", Underscored(MEMBERS[k])>>]_vars

\* C29 witness: after several exports of a run that found an earlier session,
\* one session was made and it holds a file of channel data and a file of
\* video data
C29_Witness ==
    /\ Len(created) = 1
    /\ Cardinality(SessionsOf(directories)) = 2
    /\ \E channel \in files, video \in files :
          /\ Parent(channel) = created[1] \o <<"Channel">>
          /\ Parent(video) = created[1] \o <<"Video", Underscored(MEMBERS[1])>>

-----------------------------------------------------------------------------
(* is_live_stream applied to its own output *)

\* the video type of each video of a table with the column video_type
TypesOf(table) ==
    [id \in {table.rows[i]["video_id"] : i \in 1..Len(table.rows)} |->
        {table.rows[i]["video_type"] : i \in {j \in 1..Len(table.rows) : table.rows[j]["video_id"] = id}}]

\* C30: is_live_stream applied to a table is_live_stream returned raises
\* nothing and leaves the video type of every video as it was.
C30_IsLiveStreamIdempotent ==
    [][/\ applied # <<>>
       /\ applied[Len(applied)] = "is_live_stream"
       /\ applied' = Append(applied, "is_live_stream")
       => /\ error' = "none"
          /\ HasColumn(video_attributes', "video_type")
          /\ TypesOf(video_attributes') = TypesOf(video_attributes)]_vars

====
